---- MODULE Spec2Model ----
(***************************************************************************)
(* QR code builder: the per-template payload encoder (generateQRString),   *)
(* the form component (QRDataInput) that keeps one field record per        *)
(* template kind and emits the encoded payload on every edit, and the      *)
(* preview component (QRPreview) that hands the payload to the renderer,   *)
(* and the generator component (QRCodeGenerator) that holds the options,   *)
(* saves them, keeps the undo history and debounces the payload.           *)
(*                                                                         *)
(* A JavaScript string is modelled as a sequence of one-character strings, *)
(* so that replace, split, trim and encodeURIComponent are computed        *)
(* character by character as the code computes them.                       *)
(***************************************************************************)
EXTENDS Integers, Sequences, FiniteSets, TLC

VARIABLES
  templateType,  \* the selected template kind (prop templateType)
  formData,      \* kind -> field record (urlData, vcardData, ... of QRDataInput)
  emitted,       \* the payload last passed to onDataChange, NoData before the first call
  thrown,        \* TRUE when the last handler ended in an uncaught exception
  timeZone,      \* the host's time zone (environment of Date)
  away,          \* history: the kinds left by the last two template switches
  options,       \* QRPreview: the options prop
  qrCodeRef,     \* QRPreview: qrCodeRef.current, the renderer instance
  lastValidOptionsRef,  \* QRPreview: lastValidOptionsRef.current
  error,         \* QRPreview: the error state
  copySuccess,   \* QRPreview: the copySuccess state
  effects,       \* QRPreview: which effects are still to run for the last render
  calls,         \* QRPreview: the renderer calls made by the last handler
  generatorOptions,  \* QRCodeGenerator: the options state (an object: identity and fields)
  debouncedData,     \* QRCodeGenerator: the debouncedData state
  history,           \* QRCodeGenerator: the history state (a sequence of objects)
  historyIndex,      \* QRCodeGenerator: the historyIndex state (counted from 0)
  isUndoRedoRef,     \* QRCodeGenerator: isUndoRedoRef.current
  debounceTimerRef,  \* QRCodeGenerator: debounceTimerRef.current, a timer id
  timers,            \* the pending timeouts of the debounce effect
  localStorage,      \* the item stored under STORAGE_KEY
  storageAccess,     \* whether the browser lets localStorage be read and written
  strictMode,        \* whether StrictMode re-runs the effects of the mount (development build)
  mounted,           \* QRCodeGenerator: whether the effects of the first render have run
  did,               \* history: the last handler of QRCodeGenerator that ran
  before             \* history: the options and the historyIndex before that handler

formVars == <<templateType, formData, emitted, thrown, timeZone>>

previewVars ==
  <<options, qrCodeRef, lastValidOptionsRef, error, copySuccess, effects, calls>>

generatorVars ==
  <<generatorOptions, debouncedData, history, historyIndex, isUndoRedoRef,
    debounceTimerRef, timers, localStorage, storageAccess, strictMode, mounted, did, before>>

vars == <<formVars, away, previewVars, generatorVars>>

----------------------------------------------------------------------------
(* Bounds of the model *)

\* longest generated value of a free-text field
MaxLen == 2

----------------------------------------------------------------------------
(* Strings *)

EmptyString == <<>>

\* value of `emitted` before onDataChange was ever called
NoData == <<"NoData">>

\* outcome of a call that ends in an uncaught exception
Throws == <<"RangeError: Invalid time value">>

LF == "\n"

Digits == {"0", "1", "2", "3", "4", "5", "6", "7", "8", "9"}

\* all strings over alphabet A of length at most n
StringsUpTo(A, n) == UNION {[1..k -> A] : k \in 0..n}

\* index of the first occurrence of c in s, 0 when absent
IndexOf(s, c) ==
  IF \E i \in 1..Len(s) : s[i] = c
  THEN CHOOSE i \in 1..Len(s) : s[i] = c /\ \A j \in 1..(i - 1) : s[j] # c
  ELSE 0

\* s.replace(c, ''): String.prototype.replace with a string pattern removes
\* the first occurrence only
ReplaceFirst(s, c) ==
  LET i == IndexOf(s, c)
  IN  IF i = 0 THEN s ELSE SubSeq(s, 1, i - 1) \o SubSeq(s, i + 1, Len(s))

\* s.split(c)[0]
SplitFirst(s, c) ==
  LET i == IndexOf(s, c)
  IN  IF i = 0 THEN s ELSE SubSeq(s, 1, i - 1)

\* s.replace(/[^0-9]/g, '')
StripNonDigits(s) == SelectSeq(s, LAMBDA c : c \in Digits)

\* s.replace(/-/g, '')
StripDashes(s) == SelectSeq(s, LAMBDA c : c # "-")

IsWhiteSpace(c) == c \in {" ", LF}

\* s.trim()
Trim(s) ==
  LET keep == {i \in 1..Len(s) : ~IsWhiteSpace(s[i])}
  IN  IF keep = {} THEN EmptyString
      ELSE SubSeq(s, CHOOSE i \in keep : \A j \in keep : i <= j,
                     CHOOSE i \in keep : \A j \in keep : i >= j)

\* lines.join('\n')
RECURSIVE Join(_)
Join(lines) ==
  IF lines = <<>> THEN EmptyString
  ELSE IF Len(lines) = 1 THEN lines[1]
  ELSE lines[1] \o <<LF>> \o Join(Tail(lines))

\* lines.filter(line => line)
FilterNonEmpty(lines) == SelectSeq(lines, LAMBDA l : l # EmptyString)

\* characters encodeURIComponent leaves as they are
UriUnreserved ==
  Digits \cup
  {"a", "b", "c", "d", "e", "f", "g", "h", "i", "j", "k", "l", "m",
   "n", "o", "p", "q", "r", "s", "t", "u", "v", "w", "x", "y", "z",
   "A", "B", "C", "D", "E", "F", "G", "H", "I", "J", "K", "L", "M",
   "N", "O", "P", "Q", "R", "S", "T", "U", "V", "W", "X", "Y", "Z",
   "-", "_", ".", "!", "~", "*", "'", "(", ")"}

\* the percent escape of an ASCII character outside UriUnreserved
PercentEscape(c) ==
  CASE c = " " -> <<"%","2","0">>
    [] c = "#" -> <<"%","2","3">>
    [] c = "%" -> <<"%","2","5">>
    [] c = "&" -> <<"%","2","6">>
    [] c = "+" -> <<"%","2","B">>
    [] c = "," -> <<"%","2","C">>
    [] c = "/" -> <<"%","2","F">>
    [] c = ":" -> <<"%","3","A">>
    [] c = ";" -> <<"%","3","B">>
    [] c = "=" -> <<"%","3","D">>
    [] c = "?" -> <<"%","3","F">>
    [] c = "@" -> <<"%","4","0">>
    [] c = LF  -> <<"%","0","A">>

\* encodeURIComponent(s)
RECURSIVE encodeURIComponent(_)
encodeURIComponent(s) ==
  IF s = <<>> THEN EmptyString
  ELSE (IF Head(s) \in UriUnreserved THEN <<Head(s)>> ELSE PercentEscape(Head(s)))
       \o encodeURIComponent(Tail(s))

----------------------------------------------------------------------------
(* Date: time values are minutes since 1970-01-01T00:00Z *)

MinutesPerDay == 1440

DigitValue(c) == CHOOSE d \in 0..9 : <<"0", "1", "2", "3", "4", "5", "6", "7", "8", "9">>[d + 1] = c

DigitChar(d) == <<"0", "1", "2", "3", "4", "5", "6", "7", "8", "9">>[d + 1]

RECURSIVE ToNumber(_)
ToNumber(s) ==
  IF s = <<>> THEN 0 ELSE 10 * ToNumber(SubSeq(s, 1, Len(s) - 1)) + DigitValue(s[Len(s)])

\* n as a decimal string of exactly w digits (padStart with "0")
RECURSIVE Pad(_, _)
Pad(n, w) == IF w = 0 THEN EmptyString ELSE Pad(n \div 10, w - 1) \o <<DigitChar(n % 10)>>

IsLeapYear(y) == (y % 4 = 0 /\ y % 100 # 0) \/ y % 400 = 0

DaysInMonth(y, m) ==
  IF m = 2 THEN (IF IsLeapYear(y) THEN 29 ELSE 28)
  ELSE IF m \in {4, 6, 9, 11} THEN 30 ELSE 31

\* days from 1970-01-01 to the civil date y-m-d (MakeDay)
DaysFromCivil(y, m, d) ==
  LET yy  == IF m <= 2 THEN y - 1 ELSE y
      era == yy \div 400
      yoe == yy - era * 400
      mp  == (m + 9) % 12
      doy == (153 * mp + 2) \div 5 + d - 1
      doe == yoe * 365 + yoe \div 4 - yoe \div 100 + doy
  IN  era * 146097 + doe - 719468

\* the civil date of a day number (YearFromTime, MonthFromTime, DateFromTime)
CivilFromDays(z) ==
  LET zz  == z + 719468
      era == zz \div 146097
      doe == zz - era * 146097
      yoe == (doe - doe \div 1460 + doe \div 36524 - doe \div 146096) \div 365
      doy == doe - (365 * yoe + yoe \div 4 - yoe \div 100)
      mp  == (5 * doy + 2) \div 153
      d   == doy - (153 * mp + 2) \div 5 + 1
      m   == IF mp < 10 THEN mp + 3 ELSE mp - 9
      y   == yoe + era * 400 + (IF m <= 2 THEN 1 ELSE 0)
  IN  [year |-> y, month |-> m, day |-> d]

\* the UTC instant y-m-d hh:00Z
Instant(y, m, d, hh) == DaysFromCivil(y, m, d) * MinutesPerDay + hh * 60

\* s has the date-only form YYYY-MM-DD of the ECMAScript date-time string
\* format and names a day that exists
IsISODate(s) ==
  /\ Len(s) = 10
  /\ s[5] = "-" /\ s[8] = "-"
  /\ \A i \in {1, 2, 3, 4, 6, 7, 9, 10} : s[i] \in Digits
  /\ LET y == ToNumber(SubSeq(s, 1, 4))
         m == ToNumber(SubSeq(s, 6, 7))
         d == ToNumber(SubSeq(s, 9, 10))
     IN  m \in 1..12 /\ d \in 1..DaysInMonth(y, m)

\* the time value of an Invalid Date
NaN == -1

\* new Date(s) for a date-only string: midnight UTC of that day; a string
\* that is no date gives an Invalid Date
DateParse(s) ==
  IF IsISODate(s)
  THEN Instant(ToNumber(SubSeq(s, 1, 4)), ToNumber(SubSeq(s, 6, 7)),
               ToNumber(SubSeq(s, 9, 10)), 0)
  ELSE NaN

\* the host time zones of the model
TimeZones == {"UTC", "Europe/Rome", "America/New_York"}

\* offset from UTC of standard time, in minutes
StandardOffset(z) ==
  CASE z = "UTC" -> 0
    [] z = "Europe/Rome" -> 60
    [] z = "America/New_York" -> -300

\* the periods <<start, end>> of daylight saving time, as UTC instants
DaylightPeriods ==
  [z \in TimeZones |->
     CASE z = "UTC" -> {}
       [] z = "Europe/Rome" ->
            {<<Instant(2024, 3, 31, 1), Instant(2024, 10, 27, 1)>>,
             <<Instant(2025, 3, 30, 1), Instant(2025, 10, 26, 1)>>}
       [] z = "America/New_York" ->
            {<<Instant(2024, 3, 10, 7), Instant(2024, 11, 3, 6)>>,
             <<Instant(2025, 3, 9, 7), Instant(2025, 11, 2, 6)>>}]

\* offset from UTC in force at the UTC instant t (LocalTZA(t, true))
OffsetAt(z, t) ==
  IF \E p \in DaylightPeriods[z] : p[1] <= t /\ t < p[2]
  THEN StandardOffset(z) + 60
  ELSE StandardOffset(z)

\* LocalTime(t)
LocalTime(z, t) == t + OffsetAt(z, t)

\* UTC(t): the instant whose local time is t; a local time that occurs
\* twice or never is read with the offset in force before the transition
UTC(z, t) ==
  LET cands == {t - StandardOffset(z), t - StandardOffset(z) - 60}
      exact == {u \in cands : LocalTime(z, u) = t}
  IN  IF exact # {} THEN CHOOSE u \in exact : \A v \in exact : u <= v
      ELSE t - StandardOffset(z)

\* date.setDate(date.getDate() + 1): the next day at the same local time of day
SetDateNextDay(z, t) ==
  LET local == LocalTime(z, t)
      day   == local \div MinutesPerDay
      time  == local % MinutesPerDay
  IN  UTC(z, (day + 1) * MinutesPerDay + time)

\* date.toISOString().split('T')[0]: the UTC day as YYYY-MM-DD
ISODatePart(t) ==
  LET c == CivilFromDays(t \div MinutesPerDay)
  IN  Pad(c.year, 4) \o <<"-">> \o Pad(c.month, 2) \o <<"-">> \o Pad(c.day, 2)

----------------------------------------------------------------------------
(* generateQRString *)

QRTemplateTypes ==
  {"url", "vcard", "wifi", "email", "sms", "phone", "calendar", "location",
   "whatsapp", "telegram", "instagram", "twitter", "linkedin", "tiktok",
   "youtube", "facebook", "snapchat", "paypal", "bitcoin"}

\* generateUrl with the url trimmed
generateUrlTrimmed(data) == Trim(data.url)

generateUrl(data) == data.url

\* the N: and FN: lines, both gated on firstName || lastName
vcardName(vcard) ==
  IF vcard.firstName # EmptyString \/ vcard.lastName # EmptyString
  THEN << <<"N",":">> \o vcard.lastName \o <<";">> \o vcard.firstName \o <<";",";",";">>,
          Trim(<<"F","N",":">> \o vcard.firstName \o <<" ">> \o vcard.lastName) >>
  ELSE << EmptyString, EmptyString >>

\* value ? `${prefix}${value}` : ''
vcardOptional(prefix, value) ==
  IF value # EmptyString THEN prefix \o value ELSE EmptyString

\* vcardAddress gated on the street address alone
vcardAddressStreetOnly(vcard) ==
  IF vcard.address # EmptyString
  THEN <<"A","D","R",":",";",";">> \o vcard.address \o <<";">> \o vcard.city \o <<";">> \o vcard.state
       \o <<";">> \o vcard.zip \o <<";">> \o vcard.country
  ELSE EmptyString

\* the ADR: line, gated on any of the five address fields
vcardAddress(vcard) ==
  IF \/ vcard.address # EmptyString \/ vcard.city # EmptyString
     \/ vcard.state # EmptyString \/ vcard.zip # EmptyString
     \/ vcard.country # EmptyString
  THEN <<"A","D","R",":",";",";">> \o vcard.address \o <<";">> \o vcard.city \o <<";">> \o vcard.state
       \o <<";">> \o vcard.zip \o <<";">> \o vcard.country
  ELSE EmptyString

generateVCard(vcard) ==
  LET lines ==
        << <<"B","E","G","I","N",":","V","C","A","R","D">>, <<"V","E","R","S","I","O","N",":","3",".","0">> >>
        \o vcardName(vcard)
        \o << vcardOptional(<<"O","R","G",":">>, vcard.organization),
              vcardOptional(<<"T","I","T","L","E",":">>, vcard.title),
              vcardOptional(<<"T","E","L",":">>, vcard.phone),
              vcardOptional(<<"E","M","A","I","L",":">>, vcard.email),
              vcardOptional(<<"U","R","L",":">>, vcard.website),
              vcardAddress(vcard),
              <<"E","N","D",":","V","C","A","R","D">> >>
  IN  Join(FilterNonEmpty(lines))

\* generateWifi with the ';' of the password escaped
generateWifiEscaped(wifi) ==
  IF wifi.ssid = EmptyString THEN EmptyString
  ELSE LET RECURSIVE Escape(_)
           Escape(s) == IF s = <<>> THEN <<>>
                        ELSE (IF Head(s) = ";" THEN <<"\\", ";">> ELSE <<Head(s)>>)
                             \o Escape(Tail(s))
       IN  <<"W","I","F","I",":","T",":">> \o wifi.encryption \o <<";","S",":">> \o wifi.ssid \o <<";","P",":">>
           \o Escape(wifi.password)
           \o <<";","H",":">> \o (IF wifi.hidden THEN <<"t","r","u","e">> ELSE <<"f","a","l","s","e">>) \o <<";",";">>

generateWifi(wifi) ==
  IF wifi.ssid = EmptyString THEN EmptyString
  ELSE <<"W","I","F","I",":","T",":">> \o wifi.encryption \o <<";","S",":">> \o wifi.ssid \o <<";","P",":">> \o wifi.password
       \o <<";","H",":">> \o (IF wifi.hidden THEN <<"t","r","u","e">> ELSE <<"f","a","l","s","e">>) \o <<";",";">>

\* generateEmail with each query parameter left out when its field is empty
generateEmailOptionalParams(email) ==
  IF email.email = EmptyString THEN EmptyString
  ELSE <<"m","a","i","l","t","o",":">> \o email.email \o <<"?">>
       \o (IF email.subject # EmptyString
           THEN <<"s","u","b","j","e","c","t","=">> \o encodeURIComponent(email.subject) ELSE EmptyString)
       \o (IF email.body # EmptyString
           THEN <<"&","b","o","d","y","=">> \o encodeURIComponent(email.body) ELSE EmptyString)

generateEmail(email) ==
  IF email.email = EmptyString THEN EmptyString
  ELSE <<"m","a","i","l","t","o",":">> \o email.email \o <<"?","s","u","b","j","e","c","t","=">> \o encodeURIComponent(email.subject)
       \o <<"&","b","o","d","y","=">> \o encodeURIComponent(email.body)

\* generateSms with the non-digits removed after joining, as for whatsapp
generateSmsStripJoined(sms) ==
  IF sms.phone = EmptyString THEN EmptyString
  ELSE LET fullPhone == StripNonDigits(sms.countryCode \o sms.phone)
       IN  <<"s","m","s",":">> \o fullPhone \o
           (IF sms.message # EmptyString
            THEN <<"?","b","o","d","y","=">> \o encodeURIComponent(sms.message) ELSE EmptyString)

generateSms(sms) ==
  IF sms.phone = EmptyString THEN EmptyString
  ELSE LET fullPhone == sms.countryCode \o StripNonDigits(sms.phone)
       IN  <<"s","m","s",":">> \o fullPhone \o
           (IF sms.message # EmptyString
            THEN <<"?","b","o","d","y","=">> \o encodeURIComponent(sms.message) ELSE EmptyString)

generatePhone(phone) ==
  IF phone.phone = EmptyString THEN EmptyString
  ELSE LET fullPhone == phone.countryCode \o StripNonDigits(phone.phone)
       IN  <<"t","e","l",":">> \o fullPhone

\* date.replace(/-/g, '').replace('T', 'T').replace(':', '') + '00'
formatDateTime(date) ==
  IF date = EmptyString THEN EmptyString
  ELSE ReplaceFirst(StripDashes(date), ":") \o <<"0","0">>

\* date.split('T')[0].replace(/-/g, '')
formatDateOnly(date) ==
  IF date = EmptyString THEN EmptyString
  ELSE StripDashes(SplitFirst(date, "T"))

\* new Date(dateOnly), setDate(getDate() + 1), toISOString(): toISOString
\* throws a RangeError on an Invalid Date
getNextDay(date, zone) ==
  IF date = EmptyString THEN EmptyString
  ELSE LET dateOnly == SplitFirst(date, "T")
           parsed   == DateParse(dateOnly)
       IN  IF parsed = NaN THEN Throws
           ELSE StripDashes(ISODatePart(SetDateNextDay(zone, parsed)))

\* calendarDates without the test that startDate is non-empty
calendarDatesStartUnguarded(cal, zone) ==
  IF cal.allDay
  THEN << <<"D","T","S","T","A","R","T",";","V","A","L","U","E","=","D","A","T","E",":">> \o formatDateOnly(cal.startDate) >>
       \o
       (IF cal.endDate # EmptyString
        THEN << <<"D","T","E","N","D",";","V","A","L","U","E","=","D","A","T","E",":">> \o getNextDay(cal.endDate, zone) >> ELSE <<>>)
  ELSE << <<"D","T","S","T","A","R","T",":">> \o formatDateTime(cal.startDate) >>
       \o
       (IF cal.endDate # EmptyString
        THEN << <<"D","T","E","N","D",":">> \o formatDateTime(cal.endDate) >> ELSE <<>>)

\* the DTSTART and DTEND lines: VALUE=DATE for an all-day event, the full
\* date and time otherwise; each only if its field is non-empty
calendarDates(cal, zone) ==
  IF cal.allDay
  THEN (IF cal.startDate # EmptyString
        THEN << <<"D","T","S","T","A","R","T",";","V","A","L","U","E","=","D","A","T","E",":">> \o formatDateOnly(cal.startDate) >> ELSE <<>>)
       \o
       (IF cal.endDate # EmptyString
        THEN << <<"D","T","E","N","D",";","V","A","L","U","E","=","D","A","T","E",":">> \o getNextDay(cal.endDate, zone) >> ELSE <<>>)
  ELSE (IF cal.startDate # EmptyString
        THEN << <<"D","T","S","T","A","R","T",":">> \o formatDateTime(cal.startDate) >> ELSE <<>>)
       \o
       (IF cal.endDate # EmptyString
        THEN << <<"D","T","E","N","D",":">> \o formatDateTime(cal.endDate) >> ELSE <<>>)

generateCalendar(cal, zone) ==
  IF cal.title = EmptyString THEN EmptyString
  ELSE IF cal.allDay /\ cal.endDate # EmptyString /\ getNextDay(cal.endDate, zone) = Throws
  THEN Throws
  ELSE
    LET head == << <<"B","E","G","I","N",":","V","C","A","L","E","N","D","A","R">>, <<"V","E","R","S","I","O","N",":","2",".","0">>, <<"B","E","G","I","N",":","V","E","V","E","N","T">>,
                   <<"S","U","M","M","A","R","Y",":">> \o cal.title >>
        loc  == IF cal.location # EmptyString
                THEN << <<"L","O","C","A","T","I","O","N",":">> \o cal.location >> ELSE <<>>
        desc == IF cal.description # EmptyString
                THEN << <<"D","E","S","C","R","I","P","T","I","O","N",":">> \o cal.description >> ELSE <<>>
        tail == << <<"E","N","D",":","V","E","V","E","N","T">>, <<"E","N","D",":","V","C","A","L","E","N","D","A","R">> >>
    IN  Join(head \o loc \o desc \o calendarDates(cal, zone) \o tail)

\* generateLocation returning '' only when both coordinates are missing
generateLocationBothMissing(loc) ==
  IF loc.latitude = EmptyString /\ loc.longitude = EmptyString THEN EmptyString
  ELSE <<"g","e","o",":">> \o loc.latitude \o <<",">> \o loc.longitude \o
       (IF loc.label # EmptyString
        THEN <<"?","q","=">> \o encodeURIComponent(loc.label) ELSE EmptyString)

generateLocation(loc) ==
  IF loc.latitude = EmptyString \/ loc.longitude = EmptyString THEN EmptyString
  ELSE <<"g","e","o",":">> \o loc.latitude \o <<",">> \o loc.longitude \o
       (IF loc.label # EmptyString
        THEN <<"?","q","=">> \o encodeURIComponent(loc.label) ELSE EmptyString)

generateWhatsapp(wa) ==
  IF wa.phone = EmptyString THEN EmptyString
  ELSE LET fullPhone == StripNonDigits(wa.countryCode \o wa.phone)
       IN  <<"h","t","t","p","s",":","/","/","w","a",".","m","e","/">> \o fullPhone \o
           (IF wa.message # EmptyString
            THEN <<"?","t","e","x","t","=">> \o encodeURIComponent(wa.message) ELSE EmptyString)

\* generateTelegram without the test that message is non-empty
generateTelegramAlwaysText(tg) ==
  IF tg.username = EmptyString THEN EmptyString
  ELSE LET username == ReplaceFirst(tg.username, "@")
       IN  <<"h","t","t","p","s",":","/","/","t",".","m","e","/">> \o username \o <<"?","t","e","x","t","=">> \o encodeURIComponent(tg.message)

generateTelegram(tg) ==
  IF tg.username = EmptyString THEN EmptyString
  ELSE LET username == ReplaceFirst(tg.username, "@")
       IN  IF tg.message # EmptyString
           THEN <<"h","t","t","p","s",":","/","/","t",".","m","e","/">> \o username \o <<"?","t","e","x","t","=">> \o encodeURIComponent(tg.message)
           ELSE <<"h","t","t","p","s",":","/","/","t",".","m","e","/">> \o username

\* instagram, twitter, tiktok, youtube: prefix + username.replace('@', '')
generateStripped(prefix, data) ==
  IF data.username = EmptyString THEN EmptyString
  ELSE prefix \o ReplaceFirst(data.username, "@")

\* linkedin, facebook, snapchat: prefix + username
generateVerbatim(prefix, data) ==
  IF data.username = EmptyString THEN EmptyString
  ELSE prefix \o data.username

\* generatePaypal with the suffix gated on amount or currency
generatePaypalCurrencyAlone(pp) ==
  IF pp.username = EmptyString THEN EmptyString
  ELSE <<"h","t","t","p","s",":","/","/","p","a","y","p","a","l",".","m","e","/">> \o pp.username \o
       (IF pp.amount # EmptyString \/ pp.currency # EmptyString
        THEN <<"/">> \o pp.amount \o pp.currency ELSE EmptyString)

generatePaypal(pp) ==
  IF pp.username = EmptyString THEN EmptyString
  ELSE <<"h","t","t","p","s",":","/","/","p","a","y","p","a","l",".","m","e","/">> \o pp.username \o
       (IF pp.amount # EmptyString THEN <<"/">> \o pp.amount \o pp.currency ELSE EmptyString)

generateBitcoin(btc) ==
  IF btc.address = EmptyString THEN EmptyString
  ELSE LET amount == IF btc.amount # EmptyString
                     THEN << <<"a","m","o","u","n","t","=">> \o btc.amount >> ELSE <<>>
           label  == IF btc.label # EmptyString
                     THEN << <<"l","a","b","e","l","=">> \o encodeURIComponent(btc.label) >> ELSE <<>>
           params == amount \o label
       IN  <<"b","i","t","c","o","i","n",":">> \o btc.address \o
           (IF Len(params) = 0 THEN EmptyString
            ELSE IF Len(params) = 1 THEN <<"?">> \o params[1]
            ELSE <<"?">> \o params[1] \o <<"&">> \o params[2])

\* the payload of a field record, or Throws
generateQRString(type, data, zone) ==
  CASE type = "url"       -> generateUrl(data)
    [] type = "vcard"     -> generateVCard(data)
    [] type = "wifi"      -> generateWifi(data)
    [] type = "email"     -> generateEmail(data)
    [] type = "sms"       -> generateSms(data)
    [] type = "phone"     -> generatePhone(data)
    [] type = "calendar"  -> generateCalendar(data, zone)
    [] type = "location"  -> generateLocation(data)
    [] type = "whatsapp"  -> generateWhatsapp(data)
    [] type = "telegram"  -> generateTelegram(data)
    [] type = "instagram" -> generateStripped(<<"h","t","t","p","s",":","/","/","i","n","s","t","a","g","r","a","m",".","c","o","m","/">>, data)
    [] type = "twitter"   -> generateStripped(<<"h","t","t","p","s",":","/","/","t","w","i","t","t","e","r",".","c","o","m","/">>, data)
    [] type = "linkedin"  -> generateVerbatim(<<"h","t","t","p","s",":","/","/","l","i","n","k","e","d","i","n",".","c","o","m","/","i","n","/">>, data)
    [] type = "tiktok"    -> generateStripped(<<"h","t","t","p","s",":","/","/","t","i","k","t","o","k",".","c","o","m","/","@">>, data)
    [] type = "youtube"   -> generateStripped(<<"h","t","t","p","s",":","/","/","y","o","u","t","u","b","e",".","c","o","m","/","@">>, data)
    [] type = "facebook"  -> generateVerbatim(<<"h","t","t","p","s",":","/","/","f","a","c","e","b","o","o","k",".","c","o","m","/">>, data)
    [] type = "snapchat"  -> generateVerbatim(<<"h","t","t","p","s",":","/","/","s","n","a","p","c","h","a","t",".","c","o","m","/","a","d","d","/">>, data)
    [] type = "paypal"    -> generatePaypal(data)
    [] type = "bitcoin"   -> generateBitcoin(data)

----------------------------------------------------------------------------
(* Default field records *)

defaultURLData == [url |-> EmptyString]

defaultVCardData ==
  [firstName |-> EmptyString, lastName |-> EmptyString, organization |-> EmptyString,
   title |-> EmptyString, phone |-> EmptyString, email |-> EmptyString,
   website |-> EmptyString, address |-> EmptyString, city |-> EmptyString,
   state |-> EmptyString, zip |-> EmptyString, country |-> EmptyString]

defaultWiFiData ==
  [ssid |-> EmptyString, password |-> EmptyString, encryption |-> <<"W","P","A">>, hidden |-> FALSE]

defaultEmailData == [email |-> EmptyString, subject |-> EmptyString, body |-> EmptyString]

\* the country codes offered by CountryCodeSelect
countryCodes == { <<"+","1">>, <<"+","3","9">> }

\* the country code a phone record starts with: SMSData, PhoneData and
\* WhatsAppData carry a countryCode field (read by generateQRString, set by
\* CountryCodeSelect), TelegramData a message field
defaultCountryCode == <<"+","1">>

defaultSMSData ==
  [countryCode |-> defaultCountryCode, phone |-> EmptyString, message |-> EmptyString]

defaultPhoneData == [countryCode |-> defaultCountryCode, phone |-> EmptyString]

defaultCalendarData ==
  [title |-> EmptyString, location |-> EmptyString, description |-> EmptyString,
   startDate |-> EmptyString, endDate |-> EmptyString, allDay |-> FALSE]

defaultLocationData ==
  [latitude |-> EmptyString, longitude |-> EmptyString, label |-> EmptyString]

defaultWhatsAppData ==
  [countryCode |-> defaultCountryCode, phone |-> EmptyString, message |-> EmptyString]

defaultTelegramData == [username |-> EmptyString, message |-> EmptyString]

defaultSocialMediaData == [username |-> EmptyString]

defaultPayPalData == [username |-> EmptyString, amount |-> EmptyString, currency |-> <<"E","U","R">>]

defaultBitcoinData == [address |-> EmptyString, amount |-> EmptyString, label |-> EmptyString]

\* the useState initial values of QRDataInput
DefaultFormData ==
  [k \in QRTemplateTypes |->
     CASE k = "url"      -> defaultURLData
       [] k = "vcard"    -> defaultVCardData
       [] k = "wifi"     -> defaultWiFiData
       [] k = "email"    -> defaultEmailData
       [] k = "sms"      -> defaultSMSData
       [] k = "phone"    -> defaultPhoneData
       [] k = "calendar" -> defaultCalendarData
       [] k = "location" -> defaultLocationData
       [] k = "whatsapp" -> defaultWhatsAppData
       [] k = "telegram" -> defaultTelegramData
       [] k = "paypal"   -> defaultPayPalData
       [] k = "bitcoin"  -> defaultBitcoinData
       [] OTHER          -> defaultSocialMediaData]

----------------------------------------------------------------------------
(* Values a field is given *)

\* free text of length at most n: a letter, a space and a character that
\* URL encoding escapes
TextValues(n) == StringsUpTo({"a", " ", "&"}, n)

\* user names of length at most n: '@' in any position
UserNames(n) == StringsUpTo({"@", "a"}, n)

\* phone numbers as typed, with punctuation
PhoneNumbers(n) == StringsUpTo({"5", "-", "("}, n) \cup { <<"(","5","5","5",")"," ","1","2","3","-","4","5","6","7">> }

\* values of an <input type="date">
DateOnlyValues ==
  { EmptyString, <<"2","0","2","5","-","0","1","-","1","0">>, <<"2","0","2","5","-","0","1","-","3","1">>, <<"2","0","2","5","-","1","2","-","3","1">>, <<"2","0","2","4","-","0","2","-","2","8">>,
    <<"2","0","2","4","-","0","2","-","2","9">>, <<"2","0","2","5","-","0","2","-","2","8">>, <<"2","0","2","5","-","0","3","-","0","9">>, <<"2","0","2","5","-","0","3","-","3","0">>, <<"2","0","2","5","-","1","0","-","2","6">> }

\* values of an <input type="datetime-local">
DateTimeValues == { EmptyString, <<"2","0","2","5","-","0","1","-","1","0","T","1","0",":","3","0">>, <<"2","0","2","5","-","1","2","-","3","1","T","2","3",":","5","9">> }

\* strings that are not what the date inputs produce
OtherDateValues == { <<"2","0","2","5","-","0","1","-","1","0","T","1","0",":","3","0",":","1","5">>, <<"t","o","m","o","r","r","o","w">> }

NameValues == { EmptyString, <<" ">> }

URLRecords(n) == {[url |-> u] : u \in StringsUpTo({"h", " ", ":"}, n) \cup { <<"h","t","t","p","s",":","/","/","a",".","c","o","m">> }}

OneOf(v) == {EmptyString, v}

VCardRecords ==
  {[firstName |-> fn, lastName |-> ln, organization |-> f[1], title |-> f[2],
    phone |-> f[3], email |-> f[4], website |-> f[5], address |-> f[6],
    city |-> f[7], state |-> f[8], zip |-> f[9], country |-> f[10]] :
     fn \in NameValues \cup { <<"J","a","n","e">> }, ln \in NameValues \cup { <<"D","o","e">> },
     f \in OneOf(<<"A","c","m","e">>) \X OneOf(<<"C","E","O">>) \X OneOf(<<"5","5","5">>) \X OneOf(<<"j","@","d",".","i","o">>)
           \X OneOf(<<"d",".","i","o">>) \X OneOf(<<"1"," ","M","a","i","n"," ","S","t">>) \X OneOf(<<"R","o","m","e">>)
           \X OneOf(<<"R","M">>) \X OneOf(<<"0","0","1","0","0">>) \X OneOf(<<"I","T">>)}

WiFiRecords ==
  {[ssid |-> s, password |-> p, encryption |-> e, hidden |-> h] :
     s \in {EmptyString, <<"N","e","t">>, <<" ">>}, p \in {EmptyString, <<"p","w">>, <<"p",";","w">>},
     e \in { <<"W","P","A">>, <<"W","E","P">>, <<"n","o","p","a","s","s">> }, h \in BOOLEAN}

EmailRecords(n) ==
  {[email |-> e, subject |-> s, body |-> b] :
     e \in OneOf(<<"a","@","b",".","i","o">>), s \in TextValues(n), b \in TextValues(n)}

SMSRecords(n) ==
  {[countryCode |-> c, phone |-> p, message |-> m] :
     c \in countryCodes \cup {EmptyString}, p \in PhoneNumbers(n), m \in TextValues(n)}

PhoneRecords(n) ==
  {[countryCode |-> c, phone |-> p] :
     c \in countryCodes \cup {EmptyString}, p \in PhoneNumbers(n)}

CalendarRecords ==
  {[title |-> t, location |-> l, description |-> d, startDate |-> s, endDate |-> e,
    allDay |-> a] :
     t \in OneOf(<<"P","a","r","t","y">>), l \in OneOf(<<"H","o","m","e">>), d \in OneOf(<<"F","u","n">>),
     s \in DateOnlyValues \cup DateTimeValues \cup OtherDateValues,
     e \in DateOnlyValues \cup DateTimeValues \cup OtherDateValues,
     a \in BOOLEAN}

LocationRecords(n) ==
  {[latitude |-> la, longitude |-> lo, label |-> l] :
     la \in OneOf(<<"4","5",".","5">>), lo \in OneOf(<<"-","9",".","2">>), l \in TextValues(n)}

TelegramRecords(n) ==
  {[username |-> u, message |-> m] : u \in UserNames(n), m \in TextValues(n)}

SocialMediaRecords(n) == {[username |-> u] : u \in UserNames(n)}

PayPalRecords ==
  {[username |-> u, amount |-> a, currency |-> c] :
     u \in OneOf(<<"j","o","e">>), a \in OneOf(<<"5">>), c \in {EmptyString, <<"E","U","R">>, <<"U","S","D">>}}

BitcoinRecords(n) ==
  {[address |-> a, amount |-> m, label |-> l] :
     a \in {EmptyString, <<"b","c","1","q">>, <<"b","?">>}, m \in {EmptyString, <<"0",".","0","0","1">>, <<"1","&">>},
     l \in TextValues(n)}

\* the field records of a kind whose free-text fields have length at most n
RecordsUpTo(k, n) ==
  CASE k = "url"      -> URLRecords(n)
    [] k = "vcard"    -> VCardRecords
    [] k = "wifi"     -> WiFiRecords
    [] k = "email"    -> EmailRecords(n)
    [] k = "sms"      -> SMSRecords(n)
    [] k = "phone"    -> PhoneRecords(n)
    [] k = "calendar" -> CalendarRecords
    [] k = "location" -> LocationRecords(n)
    [] k = "whatsapp" -> SMSRecords(n)
    [] k = "telegram" -> TelegramRecords(n)
    [] k = "paypal"   -> PayPalRecords
    [] k = "bitcoin"  -> BitcoinRecords(n)
    [] OTHER          -> SocialMediaRecords(n)

\* the field records generateQRString is applied to
Records == [k \in QRTemplateTypes |-> RecordsUpTo(k, MaxLen)]

----------------------------------------------------------------------------
(* QRPreview: the preview component and the renderer it drives *)

ErrorCorrectionLevels == {"L", "M", "Q", "H"}

\* the length above which the update effect refuses the data
maxLength(errorCorrectionLevel) ==
  CASE errorCorrectionLevel = "L" -> 2953
    [] errorCorrectionLevel = "M" -> 2331
    [] errorCorrectionLevel = "Q" -> 1663
    [] OTHER -> 1273

\* the string of n characters c
Repeat(c, n) == [i \in 1..n |-> c]

\* the levels in the order the model adds them
LevelOrder == <<"H", "L", "M", "Q">>

\* number of error-correction levels the user selects among
MaxLevels == 2

SelectedLevels == {LevelOrder[i] : i \in 1..MaxLevels}

\* the payloads the preview is given: none, blank, short, letters as long
\* as the capacity of a selected level, digits one longer than it, and
\* blanks one longer than a capacity
PreviewData ==
  {EmptyString, <<" ">>, <<"a">>}
  \cup {Repeat("a", maxLength(l)) : l \in SelectedLevels}
  \cup {Repeat("1", maxLength(l) + 1) : l \in SelectedLevels}
  \cup {Repeat(" ", maxLength("H") + 1)}

\* the part of the options prop that QRPreview reads other than to pass it
\* on; a change of any other option gives a render with these unchanged
PreviewOptions == [data : PreviewData, errorCorrectionLevel : SelectedLevels]

\* the null of error
NoError == "null"

\* the null of qrCodeRef.current
NoInstance == "null"

\* the null of lastValidOptionsRef.current
NoOptions == [data |-> NoData, errorCorrectionLevel |-> "null"]

\* s.trim().length === 0
IsBlank(s) == \A i \in 1..Len(s) : IsWhiteSpace(s[i])

\* isDataEmpty without the trim
isDataEmptyUntrimmed == options.data = EmptyString

isDataEmpty == options.data = EmptyString \/ IsBlank(options.data)

isDataValid == ~isDataEmpty /\ error = NoError

displayError ==
  IF error # NoError THEN error
  ELSE IF isDataEmpty THEN "contentRequired" ELSE NoError

\* the disabled attribute of the copy and download buttons
buttonsDisabled == ~isDataValid \/ error # NoError

\* buildQROptions without the fallback
buildQROptionsAsGiven ==
  [data |-> options.data, errorCorrectionLevel |-> options.errorCorrectionLevel]

\* buildQROptions(): data falls back to one space
buildQROptions ==
  [data |-> IF options.data # EmptyString THEN options.data ELSE <<" ">>,
   errorCorrectionLevel |-> options.errorCorrectionLevel]

\* what a handler works on: the refs, the error it sets, the renderer calls
\* it makes, whether the last call threw, and whether the handler ended in
\* an exception that nothing caught
Handler(by) ==
  [qrCodeRef |-> qrCodeRef, lastValidOptionsRef |-> lastValidOptionsRef,
   error |-> error, calls |-> [by |-> by, made |-> <<>>], threw |-> FALSE,
   uncaught |-> FALSE]

Called(s, op, data) ==
  [s EXCEPT !.calls.made = Append(@, [op |-> op, data |-> data])]

\* the renderer is the qr-code-styling library: whether it encodes a payload
\* depends on the payload's content and the library's encoding mode, so
\* each call either returns or throws
\*
\* createQRCode(qrOptions): new QRCodeStyling(qrOptions) returns an
\* instance, or throws and leaves the refs as they are
createQRCode(s, qrOptions) ==
  LET c == Called(s, "new", qrOptions.data)
  IN  {[c EXCEPT !.qrCodeRef = "QRCodeStyling", !.lastValidOptionsRef = qrOptions,
                 !.threw = FALSE],
       [c EXCEPT !.threw = TRUE]}

\* the effect that initializes the QR code once
initEffect(s) ==
  {IF c.threw THEN [c EXCEPT !.error = "failedToInitialize", !.threw = FALSE]
   ELSE [c EXCEPT !.error = NoError] : c \in createQRCode(s, buildQROptions)}

\* the catch of the update effect: set the error, then recreate the QR code
\* with the last valid options, or else with one space as its data
updateFailed(u, message) ==
  LET e == [u EXCEPT !.error = message]
  IN  IF u.lastValidOptionsRef = NoOptions THEN {e}
      ELSE UNION {IF c.threw
                  THEN {[m EXCEPT !.uncaught = m.threw, !.threw = FALSE] :
                          m \in createQRCode(c, [buildQROptions EXCEPT !.data = <<" ">>])}
                  ELSE {c} : c \in createQRCode(e, u.lastValidOptionsRef)}

\* the effect that updates the QR code when the options change
updateEffect(s) ==
  IF s.qrCodeRef = NoInstance THEN {s}
  ELSE IF Len(options.data) > maxLength(options.errorCorrectionLevel)
  THEN {[s EXCEPT !.error = "contentTooLong"]}
  ELSE
    LET u == Called([s EXCEPT !.error = NoError], "update", buildQROptions.data)
    IN  {[u EXCEPT !.lastValidOptionsRef = buildQROptions]}
        \cup updateFailed(u, "contentTooLong")
        \cup updateFailed(u, "failedToGenerate")

\* the effect that recreates the QR code
recreateEffect(s) ==
  IF s.qrCodeRef = NoInstance \/ s.uncaught THEN {s}
  ELSE {IF c.threw THEN [c EXCEPT !.threw = FALSE] ELSE [c EXCEPT !.error = NoError] :
          c \in createQRCode(s, buildQROptions)}

\* the handler's results become the component's state; an exception that
\* nothing caught ends the component
Commit(s) ==
  /\ qrCodeRef' = s.qrCodeRef
  /\ lastValidOptionsRef' = s.lastValidOptionsRef
  /\ error' = s.error
  /\ calls' = s.calls
  /\ effects' = IF s.uncaught THEN "crashed" ELSE "none"

\* the effects of the first render: initialize, update, recreate
MountEffects ==
  /\ effects = "mount"
  /\ \E i \in initEffect(Handler("effects")) :
       \E u \in updateEffect(i) :
         \E r \in recreateEffect(u) : Commit(r)
  /\ UNCHANGED <<options, copySuccess>>

\* the effects of a render with a new options object: update, recreate
UpdateEffects ==
  /\ effects = "update"
  /\ \E u \in updateEffect(Handler("effects")) :
       \E r \in recreateEffect(u) : Commit(r)
  /\ UNCHANGED <<options, copySuccess>>

\* the parent renders QRPreview with a new options object
ChangeOptions ==
  /\ effects = "none"
  /\ \E o \in PreviewOptions : options' = o
  /\ effects' = "update"
  /\ calls' = [by |-> "render", made |-> <<>>]
  /\ UNCHANGED <<qrCodeRef, lastValidOptionsRef, error, copySuccess>>

\* copyToClipboard: getRawData('png'), once more in the fallback
copyToClipboard ==
  /\ effects = "none"
  /\ LET s == Handler("copyToClipboard")
     IN  IF qrCodeRef = NoInstance \/ ~isDataValid
         THEN Commit(s) /\ UNCHANGED copySuccess
         ELSE \E first \in {"blob", "other", "throws"}, second \in {"blob", "other", "throws"} :
                LET one == Called(s, "getRawData", lastValidOptionsRef.data)
                IN  IF first = "throws"
                    THEN /\ Commit(Called(one, "getRawData", lastValidOptionsRef.data))
                         /\ copySuccess' = IF second = "blob" THEN TRUE ELSE copySuccess
                    ELSE /\ Commit(one)
                         /\ copySuccess' = IF first = "blob" THEN TRUE ELSE copySuccess
  /\ UNCHANGED options

\* setTimeout(() => setCopySuccess(false), 2000)
CopyTimeout ==
  /\ effects \in {"none", "update"}
  /\ copySuccess
  /\ copySuccess' = FALSE
  /\ UNCHANGED <<options, qrCodeRef, lastValidOptionsRef, error, effects, calls>>

\* downloadPNG, downloadSVG, downloadPDF: one renderer call, an exception
\* sets the error
download(by, op) ==
  /\ effects = "none"
  /\ LET s == Handler(by)
     IN  IF qrCodeRef = NoInstance \/ ~isDataValid THEN Commit(s)
         ELSE \E done \in BOOLEAN :
                LET c == Called(s, op, lastValidOptionsRef.data)
                IN  Commit(IF done THEN c ELSE [c EXCEPT !.error = "failedToDownload"])
  /\ UNCHANGED <<options, copySuccess>>

downloadPNG == download("downloadPNG", "download")

downloadSVG == download("downloadSVG", "getRawData")

downloadPDF == download("downloadPDF", "getRawData")

\* QRPreview after its first render, before its effects
InitPreview ==
  /\ options \in PreviewOptions
  /\ qrCodeRef = NoInstance
  /\ lastValidOptionsRef = NoOptions
  /\ error = NoError
  /\ copySuccess = FALSE
  /\ effects = "mount"
  /\ calls = [by |-> "render", made |-> <<>>]

\* QRPreview is not part of the behaviour
NoPreview ==
  /\ options = [data |-> EmptyString, errorCorrectionLevel |-> "M"]
  /\ qrCodeRef = NoInstance
  /\ lastValidOptionsRef = NoOptions
  /\ error = NoError
  /\ copySuccess = FALSE
  /\ effects = "mount"
  /\ calls = [by |-> "render", made |-> <<>>]

----------------------------------------------------------------------------
(* QRCodeGenerator: the options, their persistence, the undo history and   *)
(* the debounce of the payload.                                            *)
(*                                                                         *)
(* React compares a new state and the dependencies of an effect with       *)
(* Object.is, so an options object is modelled with its identity: `id` is  *)
(* the object, `v` its fields. Two objects with the same fields are        *)
(* different objects unless their ids are equal.                            *)

MAX_HISTORY == 50

\* imageSize is kept in hundredths (0.25 is 25)
defaultQROptions ==
  [data |-> EmptyString, templateType |-> "url", size |-> 300, margin |-> 10,
   errorCorrectionLevel |-> "M",
   dotColor |-> "#000000",
   dotGradient |->
     [enabled |-> FALSE, type |-> "linear",
      colorStops |-> << [offset |-> 0, color |-> "#000000"],
                        [offset |-> 1, color |-> "#4a90d9"] >>,
      rotation |-> 0],
   dotType |-> "square",
   cornerSquareColor |-> "#000000", cornerSquareType |-> "square",
   cornerDotColor |-> "#000000", cornerDotType |-> "square",
   backgroundColor |-> "#ffffff", transparentBackground |-> FALSE,
   image |-> EmptyString, imageSize |-> 25, imageMargin |-> 5]

\* the keys of QROptions in the order of defaultQROptions
OptionKeys ==
  <<"data", "templateType", "size", "margin", "errorCorrectionLevel", "dotColor",
    "dotGradient", "dotType", "cornerSquareColor", "cornerSquareType",
    "cornerDotColor", "cornerDotType", "backgroundColor", "transparentBackground",
    "image", "imageSize", "imageMargin">>

\* the object defaultQROptions
DefaultObject == [id |-> 0, v |-> defaultQROptions]

\* the objects that are reachable: the options and the entries of a history
Live(opts, hist) == {opts.id} \cup {hist[i].id : i \in 1..Len(hist)}

\* a new object is none of the reachable ones, which are named 0, 1, 2, ...
NewId(live) == Cardinality(live \cup {0})

\* An id has no meaning beyond equality, so the reachable objects are
\* named in the order in which they first occur in the history and then
\* the options; defaultQROptions keeps the name 0.
RECURSIVE Names(_, _, _)
Names(ids, i, name) ==
  IF i > Len(ids) THEN name
  ELSE IF ids[i] \in DOMAIN name THEN Names(ids, i + 1, name)
  ELSE Names(ids, i + 1, name @@ (ids[i] :> Cardinality(DOMAIN name)))

Named(opts, hist) ==
  Names([i \in 1..Len(hist) |-> hist[i].id] \o <<opts.id>>, 1, (0 :> 0))

Min(a, b) == IF a < b THEN a ELSE b

\* Math.floor(size * 0.15)
maxMargin(size) == (size * 15) \div 100

(* localStorage and JSON: a text is the JSON of an object (its key and value *)
(* pairs in order), the JSON of null, or no JSON at all                      *)

NoItem == [kind |-> "none", pairs |-> <<>>]

NotJSON == [kind |-> "invalid", pairs |-> <<>>]

JSONNull == [kind |-> "null", pairs |-> <<>>]

SyntaxError == <<"SyntaxError">>

\* JSON.stringify(options)
JSONstringify(v) ==
  [kind |-> "object",
   pairs |-> [i \in 1..Len(OptionKeys) |-> <<OptionKeys[i], v[OptionKeys[i]]>>]]

\* JSON.parse(text): the pairs of the object, none for null
JSONparse(text) == IF text.kind = "invalid" THEN SyntaxError ELSE text.pairs

\* { ...base, ...parsed }: a later pair of a key wins
Spread(base, parsed) ==
  [k \in DOMAIN base |->
     LET at == {i \in 1..Len(parsed) : parsed[i][1] = k}
     IN  IF at = {} THEN base[k]
         ELSE parsed[CHOOSE i \in at : \A j \in at : j <= i][2]]

\* loadSavedOptions(): the object it returns, `id` being a new object
loadSavedOptions(id) ==
  IF storageAccess = "denied" THEN DefaultObject
  ELSE IF localStorage.kind = "none" THEN DefaultObject
  ELSE IF JSONparse(localStorage) = SyntaxError THEN DefaultObject
  ELSE [id |-> id, v |-> Spread(defaultQROptions, JSONparse(localStorage))]

(* The state of the component as a handler and the effects see it *)

Generator ==
  [options |-> generatorOptions, debouncedData |-> debouncedData,
   history |-> history, historyIndex |-> historyIndex,
   isUndoRedoRef |-> isUndoRedoRef, debounceTimerRef |-> debounceTimerRef,
   timers |-> timers, localStorage |-> localStorage]

\* clearTimeout(debounceTimerRef.current)
clearTimeout(g) == {t \in g.timers : t.id # g.debounceTimerRef}

\* the debounce effect without clearTimeout
debounceEffectKeepsTimers(g) ==
  LET id == NewId({t.id : t \in g.timers})
  IN  [g EXCEPT !.timers = g.timers \cup {[id |-> id, data |-> g.options.v.data]},
                !.debounceTimerRef = id]

\* the debounce effect: clear the timer, start one for options.data
debounceEffect(g) ==
  LET id == NewId({t.id : t \in clearTimeout(g)})
  IN  [g EXCEPT !.timers = clearTimeout(g) \cup {[id |-> id, data |-> g.options.v.data]},
                !.debounceTimerRef = id]

\* localStorage.setItem(STORAGE_KEY, JSON.stringify(options)) in its try
setItem(g) ==
  IF storageAccess = "granted" THEN JSONstringify(g.options.v) ELSE g.localStorage

\* the save effect that does not save the options of an undo or a redo
saveEffectUndoUnsaved(g, rendered) ==
  LET newHistory ==
        Append(SubSeq(g.history, 1, Min(rendered + 1, Len(g.history))), g.options)
  IN  IF g.isUndoRedoRef
      THEN [g EXCEPT !.isUndoRedoRef = FALSE]
      ELSE [g EXCEPT !.localStorage = setItem(g),
                     !.history = IF Len(newHistory) > MAX_HISTORY THEN Tail(newHistory)
                                 ELSE newHistory,
                     !.historyIndex = Min(g.historyIndex + 1, MAX_HISTORY - 1)]

\* the effect on [options]: save, add to the history unless the change is
\* an undo or a redo; `rendered` is the historyIndex of the render
saveEffect(g, rendered) ==
  LET newHistory ==
        Append(SubSeq(g.history, 1, Min(rendered + 1, Len(g.history))), g.options)
  IN  IF g.isUndoRedoRef
      THEN [g EXCEPT !.localStorage = setItem(g), !.isUndoRedoRef = FALSE]
      ELSE [g EXCEPT !.localStorage = setItem(g),
                     !.history = IF Len(newHistory) > MAX_HISTORY THEN Tail(newHistory)
                                 ELSE newHistory,
                     !.historyIndex = Min(g.historyIndex + 1, MAX_HISTORY - 1)]

\* the effects of the render that follows a handler: `g` is the state
\* before the handler, `next` the state it has set
effectsAfter(g, next) ==
  IF next.options.id = g.options.id THEN next
  ELSE saveEffect(IF next.options.v.data # g.options.v.data THEN debounceEffect(next)
                  ELSE next,
                  next.historyIndex)

\* A handler, the render it causes and the effects of that render are one
\* step: React runs the effects of a render that a click or a key press
\* caused before it handles the next event or timer.
\*
\* the state becomes what the handler and the effects have made it
Settle(name, result) ==
  \E g \in {result} : \E named \in {Named(g.options, g.history)} :
  /\ generatorOptions' = [id |-> named[g.options.id], v |-> g.options.v]
  /\ history' = [i \in 1..Len(g.history) |->
                   [id |-> named[g.history[i].id], v |-> g.history[i].v]]
  /\ debouncedData' = g.debouncedData
  /\ historyIndex' = g.historyIndex
  /\ isUndoRedoRef' = g.isUndoRedoRef
  /\ debounceTimerRef' = g.debounceTimerRef
  /\ timers' = g.timers
  /\ localStorage' = g.localStorage
  /\ did' = name
  /\ before' = [options |-> generatorOptions.v, historyIndex |-> historyIndex]
  /\ UNCHANGED <<storageAccess, strictMode, mounted>>

\* setOptions(updater): the updater returns a new object
setOptions(name, v) ==
  /\ mounted
  /\ LET g == Generator
         made == [id |-> NewId(Live(g.options, g.history)), v |-> v]
     IN  Settle(name, effectsAfter(g, [g EXCEPT !.options = made]))

\* updateOption without the margin rule
updateOptionUnclamped(key, value) == [generatorOptions.v EXCEPT ![key] = value]

\* updateOption(key, value)
updateOption(key, value) ==
  LET prev == generatorOptions.v
      newOptions == [prev EXCEPT ![key] = value]
  IN  IF key = "size" /\ newOptions.margin > maxMargin(value)
      THEN [newOptions EXCEPT !.margin = maxMargin(value)]
      ELSE newOptions

\* { ...gradient, ...updates }
Merged(gradient, updates) ==
  [k \in DOMAIN gradient |-> IF k \in DOMAIN updates THEN updates[k] ELSE gradient[k]]

\* updateGradient that keeps the end colour when the gradient is enabled
updateGradientKeepsStops(updates) ==
  LET prev == generatorOptions.v
      disables == "enabled" \in DOMAIN updates /\ ~updates.enabled
  IN  IF disables /\ prev.dotGradient.enabled
      THEN [prev EXCEPT !.dotColor = prev.dotGradient.colorStops[2].color,
                        !.dotGradient = Merged(prev.dotGradient, updates)]
      ELSE [prev EXCEPT !.dotGradient = Merged(prev.dotGradient, updates)]

\* updateGradient(updates)
updateGradient(updates) ==
  LET prev == generatorOptions.v
      enables == "enabled" \in DOMAIN updates /\ updates.enabled
      disables == "enabled" \in DOMAIN updates /\ ~updates.enabled
  IN  IF enables /\ ~prev.dotGradient.enabled
      THEN [prev EXCEPT !.dotGradient =
              [Merged(prev.dotGradient, updates) EXCEPT !.colorStops =
                 << prev.dotGradient.colorStops[1],
                    [prev.dotGradient.colorStops[2] EXCEPT !.color = prev.dotColor] >>]]
      ELSE IF disables /\ prev.dotGradient.enabled
      THEN [prev EXCEPT !.dotColor = prev.dotGradient.colorStops[2].color,
                        !.dotGradient = Merged(prev.dotGradient, updates)]
      ELSE [prev EXCEPT !.dotGradient = Merged(prev.dotGradient, updates)]

\* updateGradientColor(index, color), index counted from 0
updateGradientColor(index, color) ==
  LET prev == generatorOptions.v
  IN  [prev EXCEPT !.dotGradient.colorStops =
         [i \in 1..Len(@) |-> IF i - 1 = index THEN [@[i] EXCEPT !.color = color] ELSE @[i]]]

\* applyPreset(preset)
applyPreset(preset) ==
  LET prev == generatorOptions.v
  IN  [prev EXCEPT !.dotColor = preset.dotColor,
                   !.cornerSquareColor = preset.cornerSquareColor,
                   !.cornerDotColor = preset.cornerDotColor,
                   !.backgroundColor = preset.backgroundColor,
                   !.transparentBackground = FALSE,
                   !.dotGradient.enabled = FALSE]

canUndo == historyIndex > 0

canRedo == historyIndex < Len(history) - 1

\* history[i], i counted from 0
At(hist, i) == hist[i + 1]

\* undo and redo: move the index by `step` and set the options to that entry
undoRedo(name, can, step) ==
  /\ mounted
  /\ LET g == Generator
     IN  IF can
         THEN Settle(name, effectsAfter(g,
                [g EXCEPT !.isUndoRedoRef = TRUE,
                          !.historyIndex = g.historyIndex + step,
                          !.options = At(g.history, g.historyIndex + step)]))
         ELSE Settle(name, g)

undo == undoRedo("undo", canUndo, -1)

redo == undoRedo("redo", canRedo, 1)

\* resetToDefault that leaves debouncedData to the timer
resetToDefaultDebounced ==
  /\ mounted
  /\ LET g == Generator
     IN  Settle("resetToDefault", effectsAfter(g, [g EXCEPT !.options = DefaultObject]))

\* resetToDefault()
resetToDefault ==
  /\ mounted
  /\ LET g == Generator
     IN  Settle("resetToDefault",
                effectsAfter(g, [g EXCEPT !.options = DefaultObject,
                                          !.debouncedData = defaultQROptions.data]))

\* a debounce timer fires: setDebouncedData(options.data) of its render
TimerFires ==
  /\ mounted
  /\ \E t \in timers :
       Settle("timer", [Generator EXCEPT !.timers = timers \ {t}, !.debouncedData = t.data])

\* the effects of the first render; StrictMode runs them, their cleanup and
\* them again
Mount ==
  /\ ~mounted
  /\ LET g == Generator
         once == saveEffect(debounceEffect(g), g.historyIndex)
         again == saveEffect(debounceEffect([once EXCEPT !.timers = clearTimeout(once)]),
                             g.historyIndex)
     IN  /\ generatorOptions' = g.options
         /\ debouncedData' = g.debouncedData
         /\ history' = IF strictMode THEN again.history ELSE once.history
         /\ historyIndex' = IF strictMode THEN again.historyIndex ELSE once.historyIndex
         /\ isUndoRedoRef' = FALSE
         /\ debounceTimerRef' = IF strictMode THEN again.debounceTimerRef
                                ELSE once.debounceTimerRef
         /\ timers' = IF strictMode THEN again.timers ELSE once.timers
         /\ localStorage' = once.localStorage
  /\ mounted' = TRUE
  /\ did' = "mount"
  /\ before' = [options |-> generatorOptions.v, historyIndex |-> historyIndex]
  /\ UNCHANGED <<storageAccess, strictMode>>

\* what the preview is given: the options with the debounced data
previewOptions == [generatorOptions.v EXCEPT !.data = debouncedData]

\* QRCodeGenerator after its first render, before its effects
InitGenerator ==
  /\ generatorOptions = loadSavedOptions(2)
  /\ debouncedData = generatorOptions.v.data
  /\ history = <<loadSavedOptions(1)>>
  /\ historyIndex = 0
  /\ isUndoRedoRef = FALSE
  /\ debounceTimerRef = 0
  /\ timers = {}
  /\ mounted = FALSE
  /\ did = "render"
  /\ before = [options |-> generatorOptions.v, historyIndex |-> historyIndex]

\* QRCodeGenerator is not part of the behaviour
NoGenerator ==
  /\ generatorOptions = DefaultObject
  /\ debouncedData = EmptyString
  /\ history = <<DefaultObject>>
  /\ historyIndex = 0
  /\ isUndoRedoRef = FALSE
  /\ debounceTimerRef = 0
  /\ timers = {}
  /\ localStorage = NoItem
  /\ storageAccess = "granted"
  /\ strictMode = FALSE
  /\ mounted = FALSE
  /\ did = "render"
  /\ before = [options |-> generatorOptions.v, historyIndex |-> historyIndex]

----------------------------------------------------------------------------
(* QRDataInput: the form *)

\* updateData(type, data): encode and hand the payload to onDataChange; an
\* exception leaves the callback uncalled
updateData(type, data) ==
  LET qrString == generateQRString(type, data, timeZone)
  IN  IF qrString = Throws
      THEN emitted' = emitted /\ thrown' = TRUE
      ELSE emitted' = qrString /\ thrown' = FALSE

\* getDataForType(type)
getDataForType(type) == formData[type]

\* handleTemplateChange that also resets the record of the kind it leaves
handleTemplateChangeReset(type) ==
  /\ templateType' = type
  /\ updateData(type, getDataForType(type))
  /\ formData' = IF type = templateType THEN formData
                 ELSE [formData EXCEPT ![templateType] = DefaultFormData[templateType]]
  /\ UNCHANGED timeZone

\* handleTemplateChange(type)
handleTemplateChange(type) ==
  /\ templateType' = type
  /\ updateData(type, getDataForType(type))
  /\ UNCHANGED <<formData, timeZone>>

\* onChange that encodes the record of the current render, not newData
onChangeStale(kind, field, value) ==
  /\ templateType = kind
  /\ formData' = [formData EXCEPT ![kind] = [formData[kind] EXCEPT ![field] = value]]
  /\ updateData(kind, formData[kind])
  /\ UNCHANGED <<templateType, timeZone>>

\* an onChange handler of the form rendered for `kind`:
\* newData = { ...data, [field]: value }; setData(newData); updateData(kind, newData)
onChange(kind, field, value) ==
  /\ templateType = kind
  /\ LET newData == [formData[kind] EXCEPT ![field] = value]
     IN  /\ formData' = [formData EXCEPT ![kind] = newData]
         /\ updateData(kind, newData)
  /\ UNCHANGED <<templateType, timeZone>>

\* the values the form's inputs give each field of each kind (the calendar
\* dates and the all-day flag have their own handlers below)
FormValues ==
  [kind \in QRTemplateTypes |->
     [field \in DOMAIN DefaultFormData[kind] |->
        IF field = "countryCode" THEN countryCodes
        ELSE {r[field] : r \in RecordsUpTo(kind, 1)}]]

FieldValues(kind, field) == FormValues[kind][field]

\* the fields edited through plain inputs
FormFields(kind) ==
  IF kind = "calendar" THEN {"title", "location", "description"}
  ELSE DOMAIN DefaultFormData[kind]

\* number of fields, over all kinds, that differ from their default
EditedFields ==
  Cardinality({kf \in UNION {{<<k, f>> : f \in DOMAIN DefaultFormData[k]} : k \in QRTemplateTypes} :
                 formData[kf[1]][kf[2]] # DefaultFormData[kf[1]][kf[2]]})

\* the model follows the form while at most this many fields hold a
\* non-default value
MaxEdited == 1

Bounded == EditedFields' <= MaxEdited

SelectTemplate == \E type \in QRTemplateTypes : handleTemplateChange(type)

EditField ==
  \E kind \in QRTemplateTypes \ {"calendar"} :
    \E field \in FormFields(kind) :
      \E value \in FieldValues(kind, field) : onChange(kind, field, value)

EditCalendarText ==
  \E field \in FormFields("calendar") :
    \E value \in FieldValues("calendar", field) : onChange("calendar", field, value)

EditAllDay == \E checked \in BOOLEAN : onChange("calendar", "allDay", checked)

\* the date inputs shown while allDay is checked
EditDateOnly ==
  /\ formData["calendar"].allDay
  /\ \E field \in {"startDate", "endDate"} :
       \E value \in DateOnlyValues : onChange("calendar", field, value)

\* the datetime-local inputs shown while allDay is not checked
EditDateTime ==
  /\ ~formData["calendar"].allDay
  /\ \E field \in {"startDate", "endDate"} :
       \E value \in DateTimeValues : onChange("calendar", field, value)

\* the step belongs to the form alone: no history is kept and QRPreview
\* is not part of the behaviour
FormOnly == UNCHANGED <<away, previewVars, generatorVars>>

Init ==
  /\ templateType = "url"
  /\ formData = DefaultFormData
  /\ emitted = NoData
  /\ thrown = FALSE
  /\ timeZone \in TimeZones
  /\ away = <<>>
  /\ NoPreview
  /\ NoGenerator

Next ==
  \/ SelectTemplate /\ Bounded /\ FormOnly
  \/ EditField /\ Bounded /\ FormOnly
  \/ EditCalendarText /\ Bounded /\ FormOnly
  \/ EditAllDay /\ Bounded /\ FormOnly
  \/ EditDateOnly /\ Bounded /\ FormOnly
  \/ EditDateTime /\ Bounded /\ FormOnly

Spec == Init /\ [][Next]_vars

----------------------------------------------------------------------------
(* The calendar form: the user has selected the calendar template and *)
(* edits the event                                                     *)

InitCalendar ==
  /\ templateType = "calendar"
  /\ formData = DefaultFormData
  /\ emitted = EmptyString
  /\ thrown = FALSE
  /\ timeZone \in TimeZones
  /\ away = <<>>
  /\ NoPreview
  /\ NoGenerator

NextCalendar ==
  \/ EditCalendarText /\ FormOnly
  \/ EditAllDay /\ FormOnly
  \/ EditDateOnly /\ FormOnly
  \/ EditDateTime /\ FormOnly

SpecCalendar == InitCalendar /\ [][NextCalendar]_vars

----------------------------------------------------------------------------
(* The encoder applied to a field record: generateQRString is called with *)
(* a kind and any record of that kind                                     *)

InitEncode ==
  /\ templateType \in QRTemplateTypes
  /\ \E data \in Records[templateType] :
       formData = [DefaultFormData EXCEPT ![templateType] = data]
  /\ emitted = NoData
  /\ thrown = FALSE
  /\ timeZone \in TimeZones
  /\ away = <<>>
  /\ NoPreview
  /\ NoGenerator

\* updateData(templateType, record)
Encode ==
  /\ emitted = NoData /\ ~thrown
  /\ updateData(templateType, getDataForType(templateType))
  /\ UNCHANGED <<templateType, formData, timeZone>>
  /\ FormOnly

NextEncode == Encode

SpecEncode == InitEncode /\ [][NextEncode]_vars

----------------------------------------------------------------------------
(* The form with a history of the kinds the user left: the user moves *)
(* among the first MaxKinds template kinds                            *)

\* the template kinds in the order in which MaxKinds admits them
KindOrder ==
  <<"url", "phone", "telegram", "instagram", "wifi", "email", "sms", "vcard",
    "calendar", "location", "whatsapp", "twitter", "linkedin", "tiktok", "youtube",
    "facebook", "snapchat", "paypal", "bitcoin">>

\* number of template kinds the user moves among
MaxKinds == 3

VisitedKinds == {KindOrder[i] : i \in 1..MaxKinds}

Visited == templateType' \in VisitedKinds /\ Bounded

\* history: on a template switch, note the kind that is left, its record and
\* the payload last emitted for it (NoData if none was); keep two notes
Remember ==
  /\ away' = IF templateType' = templateType THEN away
             ELSE <<[kind |-> templateType, record |-> formData[templateType],
                     payload |-> IF thrown THEN NoData ELSE emitted]>>
                  \o SubSeq(away, 1, IF Len(away) > 0 THEN 1 ELSE 0)
  /\ UNCHANGED <<previewVars, generatorVars>>

InitSwitch ==
  /\ templateType = KindOrder[1]
  /\ formData = DefaultFormData
  /\ emitted = NoData
  /\ thrown = FALSE
  /\ timeZone \in TimeZones
  /\ away = <<>>
  /\ NoPreview
  /\ NoGenerator

NextSwitch ==
  \/ SelectTemplate /\ Visited /\ Remember
  \/ EditField /\ Visited /\ Remember

SpecSwitch == InitSwitch /\ [][NextSwitch]_vars

----------------------------------------------------------------------------
(* QRPreview alone: the parent changes the options, the user copies and *)
(* downloads                                                            *)

\* the step belongs to QRPreview alone
PreviewOnly == UNCHANGED <<formVars, away, generatorVars>>

InitPreviewOnly ==
  /\ templateType = "url"
  /\ formData = DefaultFormData
  /\ emitted = NoData
  /\ thrown = FALSE
  /\ timeZone = "UTC"
  /\ away = <<>>
  /\ InitPreview
  /\ NoGenerator

NextPreview ==
  \/ MountEffects /\ PreviewOnly
  \/ UpdateEffects /\ PreviewOnly
  \/ ChangeOptions /\ PreviewOnly
  \/ copyToClipboard /\ PreviewOnly
  \/ CopyTimeout /\ PreviewOnly
  \/ downloadPNG /\ PreviewOnly
  \/ downloadSVG /\ PreviewOnly
  \/ downloadPDF /\ PreviewOnly

SpecPreview == InitPreviewOnly /\ [][NextPreview]_vars

----------------------------------------------------------------------------
(* QRCodeGenerator alone: what the user does in the options panel *)

\* the payloads the user types
DataValues == { <<"a">>, <<"b">> }

\* the positions of the size slider the user picks
SizeValues == {100, 300}

\* the positions of the margin slider the user picks, within 0..max
MarginValues == {m \in {0, 15, 45} : m <= maxMargin(generatorOptions.v.size)}

\* the colours the user picks
Colors == {"#000000", "#0077b6"}

\* defaultColorPresets: Classic and Ocean
Presets ==
  {[name |-> "Classic", dotColor |-> "#000000", cornerSquareColor |-> "#000000",
    cornerDotColor |-> "#000000", backgroundColor |-> "#ffffff"],
   [name |-> "Ocean", dotColor |-> "#0077b6", cornerSquareColor |-> "#023e8a",
    cornerDotColor |-> "#03045e", backgroundColor |-> "#caf0f8"]}

\* the updates of the gradient controls other than the checkbox
GradientUpdates == {[type |-> "radial"], [rotation |-> 90]}

\* what the browser holds under STORAGE_KEY when the page is opened
StoredItems ==
  {NoItem, NotJSON, JSONNull,
   [kind |-> "object", pairs |-> << <<"size", 100>> >>],
   JSONstringify([defaultQROptions EXCEPT !.data = <<"a">>])}

\* deepest history the user builds
MaxRecorded == 2

Shallow == Len(history) <= MaxRecorded

EditData == \E d \in DataValues : setOptions("updateOption", updateOption("data", d))

EditSize == \E s \in SizeValues : setOptions("updateOption", updateOption("size", s))

EditMargin == \E m \in MarginValues : setOptions("updateOption", updateOption("margin", m))

EditDotColor == \E c \in Colors : setOptions("updateOption", updateOption("dotColor", c))

ToggleGradient ==
  \E b \in BOOLEAN : setOptions("updateGradient", updateGradient([enabled |-> b]))

EditGradient == \E u \in GradientUpdates : setOptions("updateGradient", updateGradient(u))

EditGradientColor ==
  \E i \in {0, 1}, c \in Colors :
    setOptions("updateGradientColor", updateGradientColor(i, c))

ApplyPreset == \E p \in Presets : setOptions("applyPreset", applyPreset(p))

\* the step belongs to QRCodeGenerator alone
GeneratorOnly == UNCHANGED <<formVars, away, previewVars>>

\* QRDataInput and QRPreview are not part of the behaviour
NoForm ==
  /\ templateType = "url"
  /\ formData = DefaultFormData
  /\ emitted = NoData
  /\ thrown = FALSE
  /\ timeZone = "UTC"
  /\ away = <<>>

InitGeneratorOnly ==
  /\ NoForm
  /\ NoPreview
  /\ localStorage \in StoredItems
  /\ storageAccess \in {"granted", "full", "denied"}
  /\ strictMode \in BOOLEAN
  /\ InitGenerator

NextGenerator ==
  \/ Mount /\ GeneratorOnly
  \/ EditData /\ Shallow /\ GeneratorOnly
  \/ ToggleGradient /\ Shallow /\ GeneratorOnly
  \/ ApplyPreset /\ Shallow /\ GeneratorOnly
  \/ undo /\ GeneratorOnly
  \/ redo /\ GeneratorOnly
  \/ resetToDefault /\ Shallow /\ GeneratorOnly
  \/ TimerFires /\ GeneratorOnly

SpecGenerator == InitGeneratorOnly /\ [][NextGenerator]_vars

----------------------------------------------------------------------------
(* QRCodeGenerator with a history that fills up: the user presses the      *)
(* button of one error correction level again and again, undoes and redoes *)

\* the button of level H: every press sets the options to a new object
PressLevel == setOptions("updateOption", updateOption("errorCorrectionLevel", "H"))

InitHistory ==
  /\ NoForm
  /\ NoPreview
  /\ localStorage = NoItem
  /\ storageAccess = "granted"
  /\ strictMode \in BOOLEAN
  /\ InitGenerator

NextHistory ==
  \/ Mount /\ GeneratorOnly
  \/ PressLevel /\ GeneratorOnly
  \/ undo /\ GeneratorOnly
  \/ redo /\ GeneratorOnly

SpecHistory == InitHistory /\ [][NextHistory]_vars

----------------------------------------------------------------------------
(* QRCodeGenerator with the browser's timers: a timeout that stays pending *)
(* is run by the event loop                                                *)

SpecDebounce == SpecGenerator /\ WF_vars(TimerFires /\ GeneratorOnly)

----------------------------------------------------------------------------
(* QRCodeGenerator, size and margin: the user moves the two sliders, *)
(* undoes, redoes and resets, starting from the defaults             *)

\* longest history the user builds with the sliders and the colour controls
MaxEntries == 4

Short == Len(history) <= MaxEntries

InitLayout ==
  /\ NoForm
  /\ NoPreview
  /\ localStorage \in {NoItem, NotJSON}
  /\ storageAccess = "granted"
  /\ strictMode \in BOOLEAN
  /\ InitGenerator

NextLayout ==
  \/ Mount /\ GeneratorOnly
  \/ EditSize /\ Short /\ GeneratorOnly
  \/ EditMargin /\ Short /\ GeneratorOnly
  \/ undo /\ GeneratorOnly
  \/ redo /\ GeneratorOnly
  \/ resetToDefault /\ Short /\ GeneratorOnly

SpecLayout == InitLayout /\ [][NextLayout]_vars

----------------------------------------------------------------------------
(* QRCodeGenerator, colours: the user works the gradient controls, the dot *)
(* colour and the presets                                                  *)

NextGradient ==
  \/ Mount /\ GeneratorOnly
  \/ ToggleGradient /\ Short /\ GeneratorOnly
  \/ EditGradient /\ Short /\ GeneratorOnly
  \/ EditGradientColor /\ Short /\ GeneratorOnly
  \/ EditDotColor /\ Short /\ GeneratorOnly
  \/ ApplyPreset /\ Short /\ GeneratorOnly

SpecGradient == InitLayout /\ [][NextGradient]_vars

----------------------------------------------------------------------------
(* Properties *)

\* the record of the selected kind
Data == formData[templateType]

\* generateQRString has been applied to Data and has returned
Returned == emitted # NoData /\ ~thrown

StartsWith(s, p) == Len(s) >= Len(p) /\ SubSeq(s, 1, Len(p)) = p

EndsWith(s, p) == Len(s) >= Len(p) /\ SubSeq(s, Len(s) - Len(p) + 1, Len(s)) = p

\* the lines of a payload
RECURSIVE SplitLines(_)
SplitLines(s) ==
  LET i == IndexOf(s, LF)
  IN  IF i = 0 THEN <<s>>
      ELSE <<SubSeq(s, 1, i - 1)>> \o SplitLines(SubSeq(s, i + 1, Len(s)))

\* C1: generateQRString is total: for every kind and every field record,
\* calendar records with malformed dates included, it returns a string and
\* never throws.
C1_NeverThrows == ~thrown

\* the required fields of the record are all empty
RequiredEmpty(kind, data) ==
  CASE kind = "url" -> data.url = EmptyString
    [] kind = "vcard" -> \A f \in DOMAIN data : data[f] = EmptyString
    [] kind = "wifi" -> data.ssid = EmptyString
    [] kind = "email" -> data.email = EmptyString
    [] kind \in {"sms", "phone", "whatsapp"} -> data.phone = EmptyString
    [] kind = "calendar" -> data.title = EmptyString
    [] kind = "location" -> data.latitude = EmptyString \/ data.longitude = EmptyString
    [] kind = "bitcoin" -> data.address = EmptyString
    [] OTHER -> data.username = EmptyString

\* C2 as stated: for every one of the 19 kinds, a record whose required
\* fields are all empty (for vcard: the default record) encodes to "".
C2_EmptyForEveryKind ==
  (emitted # NoData /\ RequiredEmpty(templateType, Data)) => emitted = EmptyString

MinimalVCard == Join(<< <<"B","E","G","I","N",":","V","C","A","R","D">>, <<"V","E","R","S","I","O","N",":","3",".","0">>, <<"E","N","D",":","V","C","A","R","D">> >>)

\* C2 amended: for every kind other than vcard, a record whose required
\* fields are all empty encodes to ""; vcard has no required field and its
\* all-empty record encodes to the three-line minimal vCard.
C2_EmptyExceptVCard ==
  (emitted # NoData /\ RequiredEmpty(templateType, Data)) =>
    emitted = (IF templateType = "vcard" THEN MinimalVCard ELSE EmptyString)

\* C2 witness: a location record with a longitude and a label but no
\* latitude has been encoded to "".
C2_Witness ==
  /\ templateType = "location" /\ emitted = EmptyString
  /\ Data.latitude = EmptyString /\ Data.longitude # EmptyString
  /\ Data.label # EmptyString

\* the result of the call made, Throws for an exception
Outcome == IF thrown THEN Throws ELSE emitted

\* C3: generateQRString is deterministic whatever the environment: the
\* payload of a record is the same under every host time zone.
C3_SameInEveryTimeZone ==
  (emitted # NoData \/ thrown) =>
    \A zone \in TimeZones : generateQRString(templateType, Data, zone) = Outcome

\* s without its trailing spaces
RECURSIVE WithoutTrailingSpaces(_)
WithoutTrailingSpaces(s) ==
  IF s # <<>> /\ s[Len(s)] = " " THEN WithoutTrailingSpaces(SubSeq(s, 1, Len(s) - 1)) ELSE s

\* <<prefix + value>> if value is non-empty, no line otherwise
LineIff(prefix, value) == IF value # EmptyString THEN <<prefix \o value>> ELSE <<>>

\* the vCard lines of claim C4, given the FN: line
VCardLines(v, fn) ==
  << <<"B","E","G","I","N",":","V","C","A","R","D">>, <<"V","E","R","S","I","O","N",":","3",".","0">> >>
  \o (IF v.firstName # EmptyString \/ v.lastName # EmptyString
      THEN << <<"N",":">> \o v.lastName \o <<";">> \o v.firstName \o <<";",";",";">>, fn >>
      ELSE <<>>)
  \o LineIff(<<"O","R","G",":">>, v.organization)
  \o LineIff(<<"T","I","T","L","E",":">>, v.title)
  \o LineIff(<<"T","E","L",":">>, v.phone)
  \o LineIff(<<"E","M","A","I","L",":">>, v.email)
  \o LineIff(<<"U","R","L",":">>, v.website)
  \o (IF {v.address, v.city, v.state, v.zip, v.country} # {EmptyString}
      THEN << <<"A","D","R",":",";",";">> \o v.address \o <<";">> \o v.city \o <<";">> \o v.state \o <<";">>
              \o v.zip \o <<";">> \o v.country >>
      ELSE <<>>)
  \o << <<"E","N","D",":","V","C","A","R","D">> >>

\* the two examples of claim C4: only Jane and Doe set, and nothing set
C4_Examples ==
  /\ Data = [defaultVCardData EXCEPT !.firstName = <<"J","a","n","e">>, !.lastName = <<"D","o","e">>] =>
       emitted = Join(<< <<"B","E","G","I","N",":","V","C","A","R","D">>, <<"V","E","R","S","I","O","N",":","3",".","0">>, <<"N",":","D","o","e",";","J","a","n","e",";",";",";">>,
                         <<"F","N",":","J","a","n","e"," ","D","o","e">>, <<"E","N","D",":","V","C","A","R","D">> >>)
  /\ Data = defaultVCardData => emitted = MinimalVCard

\* C4 as stated: the vcard payload is the newline-joined sequence of lines
\* in the order given, with FN:<first> <last>.
C4_VCardLines ==
  (templateType = "vcard" /\ emitted # NoData) =>
    /\ emitted = Join(VCardLines(Data, <<"F","N",":">> \o Data.firstName \o <<" ">> \o Data.lastName))
    /\ C4_Examples

\* C4 amended: as stated, except that the FN: line is FN:<first> <last>
\* with trailing white space removed (FN:<first> when lastName is empty).
C4_VCardLinesTrimmed ==
  (templateType = "vcard" /\ emitted # NoData) =>
    /\ emitted = Join(VCardLines(Data,
                   WithoutTrailingSpaces(<<"F","N",":">> \o Data.firstName \o <<" ">> \o Data.lastName)))
    /\ C4_Examples

\* C4 witness: a card for Jane Doe with an organization, no phone and an
\* address that has a city and a country but no street has been encoded.
C4_Witness ==
  /\ templateType = "vcard" /\ emitted # NoData
  /\ Data.firstName = <<"J","a","n","e">> /\ Data.lastName = <<"D","o","e">>
  /\ Data.city # EmptyString /\ Data.address = EmptyString /\ Data.country # EmptyString
  /\ Data.organization # EmptyString /\ Data.phone = EmptyString

\* the calendar record of the form
Cal == formData["calendar"]

\* the calendar form shows an event with a title, and its payload
CalendarShown == templateType = "calendar" /\ Cal.title # EmptyString /\ ~thrown

\* the value of the payload line that starts with prefix, <<"absent">> when
\* there is no such line
LineValue(payload, prefix) ==
  LET ls   == SplitLines(payload)
      hits == {i \in 1..Len(ls) : StartsWith(ls[i], prefix)}
  IN  IF hits = {} THEN <<"absent">>
      ELSE LET i == CHOOSE j \in hits : \A k \in hits : j <= k
           IN  SubSeq(ls[i], Len(prefix) + 1, Len(ls[i]))

\* the text before the first 'T'
DatePart(s) == IF IndexOf(s, "T") = 0 THEN s ELSE SubSeq(s, 1, IndexOf(s, "T") - 1)

\* the calendar day after the day YYYY-MM-DD, as YYYYMMDD
DayAfter(s) ==
  LET y == ToNumber(SubSeq(s, 1, 4))
      m == ToNumber(SubSeq(s, 6, 7))
      d == ToNumber(SubSeq(s, 9, 10))
  IN  IF d < DaysInMonth(y, m) THEN Pad(y, 4) \o Pad(m, 2) \o Pad(d + 1, 2)
      ELSE IF m < 12 THEN Pad(y, 4) \o Pad(m + 1, 2) \o <<"0","1">>
      ELSE Pad(y + 1, 4) \o <<"0","1","0","1">>

\* C5: for an all-day event with a title, DTSTART;VALUE=DATE: carries the
\* date part of startDate without dashes and DTEND;VALUE=DATE: carries the
\* calendar day exactly one day after the date part of endDate, for every
\* valid calendar date.
C5_AllDayEndIsNextDay ==
  (CalendarShown /\ Cal.allDay) =>
    /\ Cal.startDate # EmptyString =>
         LineValue(emitted, <<"D","T","S","T","A","R","T",";","V","A","L","U","E","=","D","A","T","E",":">>)
           = SelectSeq(DatePart(Cal.startDate), LAMBDA c : c # "-")
    /\ (Cal.endDate # EmptyString /\ IsISODate(DatePart(Cal.endDate))) =>
         LineValue(emitted, <<"D","T","E","N","D",";","V","A","L","U","E","=","D","A","T","E",":">>) = DayAfter(DatePart(Cal.endDate))

\* s has the shape YYYYMMDDTHHMMSS with seconds 00
IsDateTimeShape(s) ==
  /\ Len(s) = 15
  /\ \A i \in (1..8) \cup (10..15) : s[i] \in Digits
  /\ s[9] = "T"
  /\ s[14] = "0" /\ s[15] = "0"

\* C6: for an event that is not all-day, every DTSTART:/DTEND: value has
\* the shape YYYYMMDDTHHMMSS and is the field without its dashes and colons
\* followed by "00", for every non-empty startDate/endDate the form can hold
\* after any sequence of edits.
C6_DateTimeShape ==
  (CalendarShown /\ ~Cal.allDay) =>
    /\ Cal.startDate # EmptyString =>
         /\ IsDateTimeShape(LineValue(emitted, <<"D","T","S","T","A","R","T",":">>))
         /\ LineValue(emitted, <<"D","T","S","T","A","R","T",":">>)
              = SelectSeq(Cal.startDate, LAMBDA c : c \notin {"-", ":"}) \o <<"0","0">>
    /\ Cal.endDate # EmptyString =>
         /\ IsDateTimeShape(LineValue(emitted, <<"D","T","E","N","D",":">>))
         /\ LineValue(emitted, <<"D","T","E","N","D",":">>)
              = SelectSeq(Cal.endDate, LAMBDA c : c \notin {"-", ":"}) \o <<"0","0">>

\* ls[i] is a line that starts with prefix, when present; there is no such
\* position otherwise
DateLineIff(present, prefix) == IF present THEN <<prefix>> ELSE <<>>

\* C7: with a non-empty title the calendar payload is, in this order,
\* BEGIN:VCALENDAR, VERSION:2.0, BEGIN:VEVENT, SUMMARY:<title>, LOCATION:
\* iff location is non-empty, DESCRIPTION: iff description is non-empty, a
\* DTSTART line iff startDate is non-empty, a DTEND line iff endDate is
\* non-empty, END:VEVENT, END:VCALENDAR; with an empty title it is "".
C7_CalendarLines ==
  (templateType = "calendar" /\ ~thrown) =>
    IF Cal.title = EmptyString THEN emitted = EmptyString
    ELSE LET ls    == SplitLines(emitted)
             fixed == << <<"B","E","G","I","N",":","V","C","A","L","E","N","D","A","R">>, <<"V","E","R","S","I","O","N",":","2",".","0">>, <<"B","E","G","I","N",":","V","E","V","E","N","T">>,
                         <<"S","U","M","M","A","R","Y",":">> \o Cal.title >>
                      \o LineIff(<<"L","O","C","A","T","I","O","N",":">>, Cal.location)
                      \o LineIff(<<"D","E","S","C","R","I","P","T","I","O","N",":">>, Cal.description)
             dates == DateLineIff(Cal.startDate # EmptyString, <<"D","T","S","T","A","R","T">>)
                      \o DateLineIff(Cal.endDate # EmptyString, <<"D","T","E","N","D">>)
             tail  == << <<"E","N","D",":","V","E","V","E","N","T">>, <<"E","N","D",":","V","C","A","L","E","N","D","A","R">> >>
         IN  /\ Len(ls) = Len(fixed) + Len(dates) + Len(tail)
             /\ SubSeq(ls, 1, Len(fixed)) = fixed
             /\ \A i \in 1..Len(dates) : StartsWith(ls[Len(fixed) + i], dates[i])
             /\ SubSeq(ls, Len(fixed) + Len(dates) + 1, Len(ls)) = tail

\* C7 witness: an event with a title, a description, an end date, no
\* location and no start date has been encoded.
C7_Witness ==
  /\ CalendarShown /\ emitted # EmptyString
  /\ Cal.description # EmptyString /\ Cal.endDate # EmptyString
  /\ Cal.location = EmptyString /\ Cal.startDate = EmptyString

\* the characters 0-9 of s, in order
OnlyDigits(s) == SelectSeq(s, LAMBDA c : c \in Digits)

\* s is base, or base followed by a query that starts with '?'
BaseThenQuery(s, base) ==
  /\ StartsWith(s, base)
  /\ Len(s) > Len(base) => s[Len(base) + 1] = "?"

\* C8: for sms and phone the number in the payload is countryCode verbatim
\* followed by the digits of phone (sms:<n>, tel:<n>); for whatsapp it is
\* the digits of countryCode + phone (https://wa.me/<n>); sms with "+1",
\* "(555) 123-4567" and no message gives exactly sms:+15551234567.
C8_PhoneNumbers ==
  (templateType \in {"sms", "phone", "whatsapp"} /\ emitted # NoData
     /\ Data.phone # EmptyString) =>
    /\ templateType = "sms" =>
         /\ BaseThenQuery(emitted, <<"s","m","s",":">> \o Data.countryCode \o OnlyDigits(Data.phone))
         /\ (Data.countryCode = <<"+","1">> /\ Data.phone = <<"(","5","5","5",")"," ","1","2","3","-","4","5","6","7">>
             /\ Data.message = EmptyString) => emitted = <<"s","m","s",":","+","1","5","5","5","1","2","3","4","5","6","7">>
    /\ templateType = "phone" =>
         emitted = <<"t","e","l",":">> \o Data.countryCode \o OnlyDigits(Data.phone)
    /\ templateType = "whatsapp" =>
         BaseThenQuery(emitted,
                       <<"h","t","t","p","s",":","/","/","w","a",".","m","e","/">> \o OnlyDigits(Data.countryCode \o Data.phone))

\* C8 witness: the sms of the example has been encoded.
C8_Witness ==
  /\ templateType = "sms" /\ emitted = <<"s","m","s",":","+","1","5","5","5","1","2","3","4","5","6","7">>
  /\ Data.phone = <<"(","5","5","5",")"," ","1","2","3","-","4","5","6","7">>

\* the query suffix of an optional field: nothing when the field is empty
QuerySuffix(key, value) ==
  IF value = EmptyString THEN EmptyString ELSE key \o encodeURIComponent(value)

\* the user name as it is, or with one of its '@' removed
UserNameForms(u) ==
  {u} \cup {SubSeq(u, 1, i - 1) \o SubSeq(u, i + 1, Len(u)) : i \in {j \in 1..Len(u) : u[j] = "@"}}

WithoutLeadingAt(u) == IF u # <<>> /\ u[1] = "@" THEN Tail(u) ELSE u

\* the payload prefix of a profile-link kind
ProfilePrefix(kind) ==
  CASE kind = "telegram"  -> <<"h","t","t","p","s",":","/","/","t",".","m","e","/">>
    [] kind = "instagram" -> <<"h","t","t","p","s",":","/","/","i","n","s","t","a","g","r","a","m",".","c","o","m","/">>
    [] kind = "twitter"   -> <<"h","t","t","p","s",":","/","/","t","w","i","t","t","e","r",".","c","o","m","/">>
    [] kind = "tiktok"    -> <<"h","t","t","p","s",":","/","/","t","i","k","t","o","k",".","c","o","m","/","@">>
    [] kind = "youtube"   -> <<"h","t","t","p","s",":","/","/","y","o","u","t","u","b","e",".","c","o","m","/","@">>
    [] kind = "linkedin"  -> <<"h","t","t","p","s",":","/","/","l","i","n","k","e","d","i","n",".","c","o","m","/","i","n","/">>
    [] kind = "facebook"  -> <<"h","t","t","p","s",":","/","/","f","a","c","e","b","o","o","k",".","c","o","m","/">>
    [] kind = "snapchat"  -> <<"h","t","t","p","s",":","/","/","s","n","a","p","c","h","a","t",".","c","o","m","/","a","d","d","/">>

\* C10: telegram, instagram, twitter, tiktok and youtube remove a leading
\* '@' from username and change nothing else in it; linkedin, facebook and
\* snapchat use username verbatim; the payload is the kind's prefix followed
\* by that user name, for every non-empty username.
C10_ProfileLinks ==
  (templateType \in {"telegram", "instagram", "twitter", "tiktok", "youtube",
                     "linkedin", "facebook", "snapchat"}
     /\ emitted # NoData /\ Data.username # EmptyString) =>
    LET u == IF templateType \in {"linkedin", "facebook", "snapchat"}
             THEN Data.username ELSE WithoutLeadingAt(Data.username)
    IN  IF templateType = "telegram"
        THEN BaseThenQuery(emitted, ProfilePrefix(templateType) \o u)
        ELSE emitted = ProfilePrefix(templateType) \o u

\* the query of a bitcoin payload: the present parameters joined by '&'
\* after a single '?'
BitcoinQuery(amount, label) ==
  LET a == IF amount # EmptyString THEN <<"a","m","o","u","n","t","=">> \o amount ELSE EmptyString
      l == IF label # EmptyString THEN <<"l","a","b","e","l","=">> \o encodeURIComponent(label)
           ELSE EmptyString
  IN  IF a = EmptyString /\ l = EmptyString THEN EmptyString
      ELSE IF l = EmptyString THEN <<"?">> \o a
      ELSE IF a = EmptyString THEN <<"?">> \o l
      ELSE <<"?">> \o a \o <<"&">> \o l

C12_PaypalAmount ==
  (templateType = "paypal" /\ emitted # NoData /\ Data.username # EmptyString) =>
    emitted = <<"h","t","t","p","s",":","/","/","p","a","y","p","a","l",".","m","e","/">> \o Data.username
              \o (IF Data.amount # EmptyString
                  THEN <<"/">> \o Data.amount \o Data.currency ELSE EmptyString)

\* C12 witness: a paypal record with a currency and no amount has been
\* encoded to the bare link.
C12_Witness ==
  /\ templateType = "paypal" /\ emitted = <<"h","t","t","p","s",":","/","/","p","a","y","p","a","l",".","m","e","/","j","o","e">>
  /\ Data.amount = EmptyString /\ Data.currency = <<"E","U","R">>

\* C13: for email with a non-empty email field the payload is
\* mailto:<email>?subject=<encoded subject>&body=<encoded body>, both
\* parameters always present, the address verbatim.
C13_Mailto ==
  (templateType = "email" /\ emitted # NoData /\ Data.email # EmptyString) =>
    /\ emitted = <<"m","a","i","l","t","o",":">> \o Data.email \o <<"?","s","u","b","j","e","c","t","=">>
                 \o encodeURIComponent(Data.subject)
                 \o <<"&","b","o","d","y","=">> \o encodeURIComponent(Data.body)
    /\ (Data.subject = EmptyString /\ Data.body = <<" ","&">>)
         => emitted = <<"m","a","i","l","t","o",":","a","@","b",".","i","o","?","s","u","b","j","e","c","t","=","&","b","o","d","y","=","%","2","0","%","2","6">>

\* C13 witness: an email with an empty subject and a body that needs
\* escaping has been encoded.
C13_Witness ==
  /\ templateType = "email" /\ Data.subject = EmptyString /\ Data.body = <<" ","&">>
  /\ emitted = <<"m","a","i","l","t","o",":","a","@","b",".","i","o","?","s","u","b","j","e","c","t","=","&","b","o","d","y","=","%","2","0","%","2","6">>

\* C14: for wifi with a non-empty ssid the payload is exactly
\* WIFI:T:<encryption>;S:<ssid>;P:<password>;H:<true|false>;; with ssid and
\* password verbatim; Net, pw, WPA, not hidden gives
\* WIFI:T:WPA;S:Net;P:pw;H:false;;; an empty ssid gives "".
C14_Wifi ==
  (templateType = "wifi" /\ emitted # NoData) =>
    /\ emitted = (IF Data.ssid = EmptyString THEN EmptyString
                  ELSE <<"W","I","F","I",":","T",":">> \o Data.encryption \o <<";","S",":">> \o Data.ssid
                       \o <<";","P",":">> \o Data.password \o <<";","H",":">>
                       \o (IF Data.hidden THEN <<"t","r","u","e">> ELSE <<"f","a","l","s","e">>) \o <<";",";">>)
    /\ Data = [ssid |-> <<"N","e","t">>, password |-> <<"p","w">>, encryption |-> <<"W","P","A">>,
               hidden |-> FALSE]
         => emitted = <<"W","I","F","I",":","T",":","W","P","A",";","S",":","N","e","t",";","P",":","p","w",";","H",":","f","a","l","s","e",";",";">>

\* C14 witness: a hidden network whose password holds a ';' has been
\* encoded.
C14_Witness ==
  /\ templateType = "wifi" /\ Data.hidden /\ Data.password = <<"p",";","w">>
  /\ emitted = <<"W","I","F","I",":","T",":","W","E","P",";","S",":","N","e","t",";","P",":","p",";","w",";","H",":","t","r","u","e",";",";">>

\* C15: for url the payload equals the url field for every url string,
\* without trimming, normalisation or encoding; a whitespace-only url is
\* returned unchanged.
C15_UrlIdentity ==
  (templateType = "url" /\ emitted # NoData) =>
    /\ emitted = Data.url
    /\ Len(emitted) = Len(Data.url)
    /\ \A i \in 1..Len(Data.url) : emitted[i] = Data.url[i]

\* C15 witness: a url that is one space has been encoded to one space.
C15_Witness == templateType = "url" /\ Data.url = <<" ">> /\ emitted = <<" ">>

\* the fields of kind's record that the step changes
ChangedFields(kind) == {f \in DOMAIN formData[kind] : formData'[kind][f] # formData[kind][f]}

\* C16: the form keeps one record per kind: a field edit for kind K changes
\* one field of K's record and no other kind's record, a template switch
\* changes no record; on switching away from K and back, K's record is as it
\* was left and the payload emitted on return is the payload last emitted
\* for K.
C16_RecordsIndependent ==
  [][/\ templateType' # templateType => formData' = formData
     /\ formData' # formData =>
          /\ templateType' = templateType
          /\ \A k \in QRTemplateTypes \ {templateType} : formData'[k] = formData[k]
          /\ Cardinality(ChangedFields(templateType)) = 1
     /\ (templateType' # templateType /\ away # <<>> /\ away[1].kind = templateType'
         /\ away[1].payload # NoData) =>
          /\ formData'[templateType'] = away[1].record
          /\ ~thrown' /\ emitted' = away[1].payload]_vars

\* C16 witness: the user is back on a kind whose record was edited before
\* it was left, and the payload emitted on return is the one noted then.
C16_Witness ==
  /\ Len(away) = 2 /\ away[2].kind = templateType
  /\ away[2].payload \notin {NoData, EmptyString}
  /\ away[2].record # DefaultFormData[templateType]
  /\ formData[templateType] = away[2].record
  /\ emitted = away[2].payload

\* C17: after any sequence of edits and switches (at least one) the payload
\* last passed to onDataChange is generateQRString of the selected kind and
\* its current record.
C17_EmittedIsEncoding ==
  (emitted # NoData \/ thrown) =>
    /\ ~thrown
    /\ emitted = generateQRString(templateType, formData[templateType], timeZone)

\* C17 witness: an edited record of the selected kind has been encoded to a
\* non-empty payload.
C17_Witness ==
  /\ emitted \notin {NoData, EmptyString}
  /\ formData[templateType] # DefaultFormData[templateType]
  /\ templateType # "url"

\* the renderer calls of the last handler
Made == calls.made

ExportHandlers == {"copyToClipboard", "downloadPNG", "downloadSVG", "downloadPDF"}

\* C18: the data handed to the rendering library is never the empty
\* string: buildQROptions passes options.data when it is non-empty and one
\* space otherwise, in every render, update and recreate path.
C18_DataNeverEmpty ==
  /\ \A i \in 1..Len(Made) : Made[i].data \notin {EmptyString, NoData}
  /\ (calls.by = "effects" /\ Made # <<>>) =>
       Made[1].data = (IF options.data = EmptyString THEN <<" ">> ELSE options.data)
  /\ \A i \in 1..Len(Made) :
       Made[i].op = "update" =>
         Made[i].data = (IF options.data = EmptyString THEN <<" ">> ELSE options.data)

\* C18 witness: with an empty payload the effects have updated and then
\* recreated the QR code with one space as its data.
C18_Witness ==
  /\ options.data = EmptyString /\ calls.by = "effects"
  /\ Len(Made) >= 2 /\ Made[1].op = "update" /\ Made[1].data = <<" ">>
  /\ Made[Len(Made)].op = "new" /\ Made[Len(Made)].data = <<" ">>

\* the payload is empty or consists only of white space
PayloadBlank == \A i \in 1..Len(options.data) : options.data[i] \in {" ", LF}

\* with a blank payload: the buttons are disabled and an export handler
\* returns without a renderer call
BlankBlocksExport ==
  /\ buttonsDisabled
  /\ calls.by \in ExportHandlers => Made = <<>>

\* C19 as stated: whenever the payload is empty or only white space the
\* content-required message is displayed, the copy and download buttons are
\* disabled and the export handlers return without calling the renderer.
C19_ContentRequiredShown ==
  PayloadBlank => (displayError = "contentRequired" /\ BlankBlocksExport)

\* C19 amended: whenever the payload is empty or only white space a message
\* is displayed (the error when one is set, the content-required message
\* otherwise), the buttons are disabled and the export handlers return
\* without calling the renderer.
C19_BlankIsErrorState ==
  PayloadBlank =>
    /\ displayError # NoError
    /\ error = NoError => displayError = "contentRequired"
    /\ BlankBlocksExport

\* C19 witness: with a payload of one space and a renderer instance, the
\* user has pressed download; the content-required message is displayed.
C19_Witness ==
  /\ options.data = <<" ">> /\ qrCodeRef # NoInstance /\ effects = "none"
  /\ calls.by = "downloadPNG" /\ Made = <<>>
  /\ displayError = "contentRequired"

\* getMaxCapacity(errorLevel)
Capacity(level) ==
  CASE level = "L" -> 2953 [] level = "M" -> 2331 [] level = "Q" -> 1663 [] level = "H" -> 1273

\* C20: whenever the payload is longer than the capacity of the selected
\* level, once the effects for that change have run the content-too-long
\* error is set, update was not called with that payload, and copy and
\* download are blocked.
C20_TooLongIsRefused ==
  (effects = "none" /\ Len(options.data) > Capacity(options.errorCorrectionLevel)) =>
    /\ error = "contentTooLong"
    /\ \A i \in 1..Len(Made) : ~(Made[i].op = "update" /\ Made[i].data = options.data)
    /\ buttonsDisabled
    /\ calls.by \in ExportHandlers => Made = <<>>

\* s has no space at its start or end
NoSurroundingSpace(s) == s = EmptyString \/ (s[1] # " " /\ s[Len(s)] # " ")

\* first and last name joined by a single space, neither leading nor trailing
FullName(first, last) ==
  IF last = EmptyString THEN first
  ELSE IF first = EmptyString THEN last
  ELSE first \o <<" ">> \o last

\* C29: when the vcard N: and FN: lines are emitted (names free of
\* surrounding spaces), the FN value is the first and last name joined by a
\* single space with no leading or trailing space: FN:<first> when lastName
\* is empty and FN:<last> when firstName is empty.
C29_FullName ==
  (/\ templateType = "vcard" /\ emitted # NoData
   /\ Data.firstName # EmptyString \/ Data.lastName # EmptyString
   /\ NoSurroundingSpace(Data.firstName) /\ NoSurroundingSpace(Data.lastName)) =>
    SplitLines(emitted)[4] = <<"F","N",":">> \o FullName(Data.firstName, Data.lastName)

\* the current options: their fields
Current == generatorOptions.v

\* the JSON of the current options
CurrentJSON ==
  [kind |-> "object",
   pairs |-> << <<"data", Current.data>>, <<"templateType", Current.templateType>>,
                <<"size", Current.size>>, <<"margin", Current.margin>>,
                <<"errorCorrectionLevel", Current.errorCorrectionLevel>>,
                <<"dotColor", Current.dotColor>>, <<"dotGradient", Current.dotGradient>>,
                <<"dotType", Current.dotType>>,
                <<"cornerSquareColor", Current.cornerSquareColor>>,
                <<"cornerSquareType", Current.cornerSquareType>>,
                <<"cornerDotColor", Current.cornerDotColor>>,
                <<"cornerDotType", Current.cornerDotType>>,
                <<"backgroundColor", Current.backgroundColor>>,
                <<"transparentBackground", Current.transparentBackground>>,
                <<"image", Current.image>>, <<"imageSize", Current.imageSize>>,
                <<"imageMargin", Current.imageMargin>> >>]

\* the stored value of a key, the default when the key is not stored
StoredOr(key) ==
  LET at == {i \in 1..Len(localStorage.pairs) : localStorage.pairs[i][1] = key}
  IN  IF at = {} THEN defaultQROptions[key] ELSE localStorage.pairs[CHOOSE i \in at : TRUE][2]

\* at start-up the options are the defaults overlaid with the stored
\* fields, and exactly the defaults when nothing is stored, the stored text
\* is not JSON or the storage cannot be read
LoadedAtStartUp ==
  ~mounted =>
    /\ \A k \in DOMAIN defaultQROptions :
         Current[k] = IF storageAccess = "denied" THEN defaultQROptions[k] ELSE StoredOr(k)
    /\ (storageAccess = "denied" \/ localStorage \in {NoItem, NotJSON}) =>
         Current = defaultQROptions

\* C21 as stated: after every change to the options the stored value is the
\* JSON of the current options; at start-up loadSavedOptions returns the
\* defaults overlaid with the stored fields, and exactly the defaults when
\* nothing is stored, the text is not valid JSON or storage access fails.
C21_AlwaysSaved ==
  /\ []LoadedAtStartUp
  /\ [][generatorOptions' # generatorOptions => localStorage' = CurrentJSON']_vars

\* C21 amended: as stated when the storage can be written; when setItem
\* throws, the stored value stays what it was.
C21_SavedWhenWritable ==
  /\ []LoadedAtStartUp
  /\ []((mounted /\ storageAccess = "granted") => localStorage = CurrentJSON)
  /\ [][generatorOptions' # generatorOptions =>
          localStorage' = IF storageAccess = "granted" THEN CurrentJSON' ELSE localStorage]_vars

\* C21 witness: the storage is writable and an undo has brought back
\* options that are not the defaults; they are what is stored.
C21_Witness ==
  /\ mounted /\ storageAccess = "granted" /\ did = "undo"
  /\ Current # defaultQROptions /\ localStorage = CurrentJSON

\* the default payload
DefaultData == defaultQROptions.data

\* C22: resetToDefault sets every option to its value in defaultQROptions
\* and the preview's data to the default data at once; while the options
\* stay the defaults no timer changes the preview's data (a timer started
\* for an earlier payload never overwrites it).
C22_ResetIsImmediate ==
  /\ [](\A t \in timers : t.data = Current.data)
  /\ [][/\ did' = "resetToDefault" =>
            (Current' = defaultQROptions /\ debouncedData' = DefaultData)
        /\ (did' = "timer" /\ Current = defaultQROptions /\ debouncedData = DefaultData) =>
            debouncedData' = DefaultData]_vars

\* C22 witness: the payload was "a", recorded in the history; the reset has
\* put the defaults back and the preview shows the default data while a new
\* timer is still pending.
C22_Witness ==
  /\ did = "resetToDefault" /\ Current = defaultQROptions /\ debouncedData = DefaultData
  /\ timers # {}
  /\ Len(history) >= 2 /\ history[Len(history) - 1].v.data = <<"a">>

\* C23: after every user action and its effects have settled,
\* history[historyIndex] equals the current options, so every options
\* change not made by undo or redo is recorded in the history.
C23_HistoryTracksOptions ==
  (mounted /\ did # "render") =>
    /\ historyIndex < Len(history)
    /\ At(history, historyIndex).v = Current

\* C26: right after QRCodeGenerator has mounted and before the user has
\* changed any option, the history holds exactly the loaded options once,
\* historyIndex = 0, and both canUndo and canRedo are false.
C26_FreshHistory ==
  did = "mount" =>
    /\ Len(history) = 1 /\ history[1].v = Current
    /\ historyIndex = 0
    /\ ~canUndo /\ ~canRedo

\* the last handler was `second`, the one before it was `first` and moved
\* the index, and `second` has moved it back
Reverted(first, second) ==
  /\ did = first /\ did' = second
  /\ historyIndex # before.historyIndex
  /\ historyIndex' # historyIndex

\* C25: undo is a no-op when historyIndex = 0 and redo when historyIndex =
\* history.length - 1; otherwise undo sets the options to
\* history[historyIndex - 1] and redo to history[historyIndex + 1], moving
\* historyIndex by one and leaving the history unchanged, so undo followed
\* by redo, and redo followed by undo, restores the same options and the
\* same historyIndex.
C25_UndoRedoInverse ==
  [][/\ (did' = "undo" /\ historyIndex = 0) =>
          UNCHANGED <<generatorOptions, history, historyIndex>>
     /\ (did' = "redo" /\ historyIndex = Len(history) - 1) =>
          UNCHANGED <<generatorOptions, history, historyIndex>>
     /\ (did' = "undo" /\ historyIndex # 0) =>
          /\ generatorOptions' = At(history, historyIndex - 1)
          /\ historyIndex' = historyIndex - 1 /\ history' = history
     /\ (did' = "redo" /\ historyIndex # Len(history) - 1) =>
          /\ historyIndex + 1 < Len(history)
          /\ generatorOptions' = At(history, historyIndex + 1)
          /\ historyIndex' = historyIndex + 1 /\ history' = history
     /\ (Reverted("undo", "redo") \/ Reverted("redo", "undo")) =>
          /\ Current' = before.options
          /\ historyIndex' = before.historyIndex]_vars

\* the fields of the entries of a history
Fields(hist) == [i \in 1..Len(hist) |-> hist[i].v]

\* the handlers that change an option
ChangeHandlers ==
  {"updateOption", "updateGradient", "updateGradientColor", "applyPreset", "resetToDefault"}

\* the step is a change that the history effect records: a change handler
\* has set the options to another object while isUndoRedoRef was false
RecordedChange ==
  /\ did' \in ChangeHandlers
  /\ ~isUndoRedoRef
  /\ ~(did' = "resetToDefault" /\ generatorOptions = DefaultObject)

\* the history after the current options `now` are recorded at index i
Recorded(hist, i, now) ==
  LET appended == Append(SubSeq(Fields(hist), 1, i + 1), now)
  IN  IF Len(appended) > 50 THEN Tail(appended) ELSE appended

\* C24: in every reachable state the history holds between 1 and
\* MAX_HISTORY = 50 entries and 0 <= historyIndex <= history.length - 1; a
\* recorded change discards the entries after the current index, appends
\* the new options, drops the oldest entry when the length would exceed 50,
\* and leaves historyIndex = history.length - 1, so that redo is unavailable.
C24_HistoryBounds ==
  /\ [](/\ Len(history) \in 1..50
        /\ historyIndex \in 0..(Len(history) - 1))
  /\ [][RecordedChange =>
          /\ Fields(history') = Recorded(history, historyIndex, Current')
          /\ historyIndex' = Len(history') - 1
          /\ ~canRedo']_vars

\* C27: at most one debounce timer is pending at any time; the data shown by
\* the preview changes only to the value options.data holds when a timer
\* fires, or to the default data on reset; and once options.data stops
\* changing the preview data eventually equals options.data.
C27_Debounce ==
  /\ [](Cardinality(timers) <= 1)
  /\ [][debouncedData' # debouncedData =>
          \/ did' = "timer" /\ debouncedData' = Current.data
          \/ did' = "resetToDefault" /\ debouncedData' = DefaultData]_vars
  /\ (<>[][Current'.data = Current.data]_vars) =>
       <>[](previewOptions.data = Current.data)

\* C27 witness: the user typed "a" and then "b"; the timer has fired and the
\* preview shows "b".
C27_Witness ==
  /\ did = "timer" /\ timers = {}
  /\ Current.data = <<"b">> /\ previewOptions.data = <<"b">>
  /\ Len(history) >= 2
  /\ history[Len(history) - 1].v.data = <<"a">> /\ history[Len(history)].v.data = <<"b">>

\* floor(0.15 * size)
Floor15(size) == CHOOSE m \in 0..size : m * 100 <= 15 * size /\ 15 * size < (m + 1) * 100

\* the options other than those in `keys` are unchanged
OnlyChanges(keys) == \A k \in DOMAIN Current \ keys : Current'[k] = Current[k]

\* C28: updateOption('size', s) lowers margin to floor(0.15 * s) when the
\* current margin exceeds it, otherwise leaves margin unchanged, and changes
\* no option other than size and margin; with margin edits within the
\* slider range and the default start state, margin <= floor(0.15 * size)
\* holds after every sequence of size edits, margin edits, undo, redo and
\* reset.
C28_MarginWithinSize ==
  /\ [](Current.margin <= Floor15(Current.size))
  /\ [][did' = "updateOption" =>
          /\ OnlyChanges({"size", "margin"})
          /\ Current'.size # Current.size =>
               Current'.margin = IF Current.margin > Floor15(Current'.size)
                                 THEN Floor15(Current'.size) ELSE Current.margin]_vars

\* C28 witness: with size 300 and margin 45 the user has set the size to
\* 100; the margin is now 15.
C28_Witness ==
  /\ did = "updateOption"
  /\ before.options.size = 300 /\ before.options.margin = 45
  /\ Current.size = 100 /\ Current.margin = 15

Gradient == Current.dotGradient

\* the gradient's end colour
EndColor == Gradient.colorStops[2].color

\* C30: enabling the dot gradient while it is disabled sets the end colour
\* stop to the current dotColor and keeps the start stop; disabling it while
\* enabled sets dotColor to the end colour stop; an update that does not
\* change 'enabled' touches only the given gradient fields.  Hence enabling
\* and then disabling, with no colour edit in between, leaves dotColor
\* unchanged, and no gradient update changes any option other than dotColor
\* and dotGradient.
C30_GradientToggle ==
  [][/\ did' = "updateGradient" =>
          /\ ~Gradient.enabled /\ Gradient'.enabled =>
               /\ EndColor' = Current.dotColor
               /\ Gradient'.colorStops[2].offset = Gradient.colorStops[2].offset
               /\ Gradient'.colorStops[1] = Gradient.colorStops[1]
               /\ Current'.dotColor = Current.dotColor
               /\ Gradient'.type = Gradient.type
               /\ Gradient'.rotation = Gradient.rotation
          /\ Gradient.enabled /\ ~Gradient'.enabled =>
               /\ Current'.dotColor = EndColor
               /\ [Gradient' EXCEPT !.enabled = TRUE] = Gradient
          /\ Gradient'.enabled = Gradient.enabled =>
               /\ Current'.dotColor = Current.dotColor
               /\ Gradient'.colorStops = Gradient.colorStops
               /\ Gradient'.type = Gradient.type \/ Gradient'.rotation = Gradient.rotation
          /\ OnlyChanges({"dotColor", "dotGradient"})
     /\ did' = "updateGradientColor" =>
          /\ OnlyChanges({"dotGradient"})
          /\ [Gradient' EXCEPT !.colorStops = Gradient.colorStops] = Gradient
     /\ /\ did = "updateGradient" /\ did' = "updateGradient"
        /\ ~before.options.dotGradient.enabled
        /\ Gradient.enabled /\ ~Gradient'.enabled
        => Current'.dotColor = before.options.dotColor]_vars

\* C30 witness: with the dot colour #0077b6 and the default stops the user
\* has ticked and then unticked the gradient checkbox; the dot colour is
\* still #0077b6 and so is the end stop.
C30_Witness ==
  /\ did = "updateGradient"
  /\ before.options.dotGradient.enabled /\ ~Gradient.enabled
  /\ before.options.dotGradient.colorStops[1].color = "#000000"
  /\ Current.dotColor = "#0077b6" /\ EndColor = "#0077b6"
  /\ Len(history) = 5

====
